---- MODULE Spec2Model ----
(***************************************************************************)
(* Codon-usage engine of vhip.mlmodel.gene_features: the genetic-code      *)
(* table, Gene (per-gene codon and amino-acid counts) and GeneSet (the     *)
(* lazily derived aggregates: codon counts and frequencies, amino-acid     *)
(* counts and frequencies, RSCU, tRNA gene counts and frequencies).        *)
(*                                                                         *)
(* Conventions.                                                            *)
(*  - A Python string that the code slices (a gene sequence, an anticodon) *)
(*    is a tuple of one-character strings; Str joins a slice into the      *)
(*    string that is looked up in the tables.                              *)
(*  - An attribute that may be missing (hasattr) is <<>> when missing and  *)
(*    <<v>> when present with value v.                                     *)
(*  - A Python float that is the quotient of two integers is the fraction  *)
(*    [num, den], kept as the code forms it; fractions are compared by     *)
(*    cross-multiplication.  Every quotient formed here has operands far   *)
(*    below 2^53, so comparisons against the thresholds 0, 1/2 and 1 agree *)
(*    with IEEE double arithmetic.                                         *)
(*  - A method is an operator from the object (and arguments) to           *)
(*    [self, exc]: the object as the call leaves it, and the exception     *)
(*    that escaped ("None" when the call returned).                        *)
(***************************************************************************)
EXTENDS Integers, Sequences, FiniteSets, TLC

VARIABLES gene, gs, host, tm, last

vars == <<gene, gs, host, tm, last>>

(***************************************************************************)
(* Bounds of the explored inputs.                                          *)
(***************************************************************************)
MaxSeqLen == 6
MaxGenes == 2

(***************************************************************************)
(* Attribute presence, fractions, sums.                                    *)
(***************************************************************************)
NoAttr == <<>>
Attr(v) == <<v>>
hasattr(a) == a # <<>>
Val(a) == a[1]

Rat(n, d) == [num |-> n, den |-> d]
RatEq(a, b) == a.num * b.den = b.num * a.den
RatLE(a, b) == a.num * b.den <= b.num * a.den
RatGT(a, b) == a.num * b.den > b.num * a.den
RatDiv(a, b) == Rat(a.num * b.den, a.den * b.num)

\* the element of a one-element set.  Only({e : x \in {v}}) is e with x
\* standing for the value of v, computed once: an assignment to a local
\* followed by the statements that read it
Only(S) == CHOOSE out \in S : TRUE

\* the sum of the natural numbers f[k] for k in S: the number of pairs
\* <<k, i>> with 1 <= i <= f[k]
SumOver(f, S) ==
  Only({ Cardinality(UNION {{<<k, i>> : i \in 1..g[k]} : k \in S})
        : g \in {f}})

Sum(f) == SumOver(f, DOMAIN f)

RECURSIVE Str(_)
Str(chars) == IF chars = <<>> THEN "" ELSE Head(chars) \o Str(Tail(chars))

\* Python s[a:b] for 0 <= a <= b, as the joined string
Slice(s, a, b) ==
  Str(SubSeq(s, a + 1, IF b < Len(s) THEN b ELSE Len(s)))

(***************************************************************************)
(* The genetic-code table and the lists derived from it.                   *)
(***************************************************************************)
CODON_TABLE ==
  (("ATA" :> "I") @@ ("ATC" :> "I") @@ ("ATT" :> "I") @@ ("ATG" :> "M")) @@
  (("ACA" :> "T") @@ ("ACC" :> "T") @@ ("ACG" :> "T") @@ ("ACT" :> "T")) @@
  (("AAC" :> "N") @@ ("AAT" :> "N") @@ ("AAA" :> "K") @@ ("AAG" :> "K")) @@
  (("AGC" :> "S") @@ ("AGT" :> "S") @@ ("AGA" :> "R") @@ ("AGG" :> "R")) @@
  (("CTA" :> "L") @@ ("CTC" :> "L") @@ ("CTG" :> "L") @@ ("CTT" :> "L")) @@
  (("CCA" :> "P") @@ ("CCC" :> "P") @@ ("CCG" :> "P") @@ ("CCT" :> "P")) @@
  (("CAC" :> "H") @@ ("CAT" :> "H") @@ ("CAA" :> "Q") @@ ("CAG" :> "Q")) @@
  (("CGA" :> "R") @@ ("CGC" :> "R") @@ ("CGG" :> "R") @@ ("CGT" :> "R")) @@
  (("GTA" :> "V") @@ ("GTC" :> "V") @@ ("GTG" :> "V") @@ ("GTT" :> "V")) @@
  (("GCA" :> "A") @@ ("GCC" :> "A") @@ ("GCG" :> "A") @@ ("GCT" :> "A")) @@
  (("GAC" :> "D") @@ ("GAT" :> "D") @@ ("GAA" :> "E") @@ ("GAG" :> "E")) @@
  (("GGA" :> "G") @@ ("GGC" :> "G") @@ ("GGG" :> "G") @@ ("GGT" :> "G")) @@
  (("TCA" :> "S") @@ ("TCC" :> "S") @@ ("TCG" :> "S") @@ ("TCT" :> "S")) @@
  (("TTC" :> "F") @@ ("TTT" :> "F") @@ ("TTA" :> "L") @@ ("TTG" :> "L")) @@
  (("TAC" :> "Y") @@ ("TAT" :> "Y") @@ ("TAA" :> "_") @@ ("TAG" :> "_")) @@
  (("TGC" :> "C") @@ ("TGT" :> "C") @@ ("TGA" :> "_") @@ ("TGG" :> "W"))

\* the keys of CODON_TABLE (the order of the Python list is not modelled)
CODON_LIST == DOMAIN CODON_TABLE

\* the keys that dict.fromkeys(AA_LIST, 0) produces
AA_LIST == {CODON_TABLE[c] : c \in CODON_LIST} \ {"_"}

stop_codons == {codon \in CODON_LIST : CODON_TABLE[codon] = "_"}

\* variant: the codons whose amino acid occurs at most twice in the table
non_degenerate_codonsUpToTwo ==
  {codon \in CODON_LIST :
     Cardinality({c \in CODON_LIST : CODON_TABLE[c] = CODON_TABLE[codon]}) <= 2}

non_degenerate_codons ==
  {codon \in CODON_LIST :
     Cardinality({c \in CODON_LIST : CODON_TABLE[c] = CODON_TABLE[codon]}) = 1}

(***************************************************************************)
(* Gene                                                                    *)
(***************************************************************************)
NoObject == [exists |-> FALSE]

\* variant: construction also rejects a sequence with a base outside ACGT
Gene__init__RejectingAmbiguous(gene_seq, codon_length, gene_id, gene_product) ==
  IF /\ Len(gene_seq) % codon_length = 0
     /\ \A i \in 1..Len(gene_seq) : gene_seq[i] \in {"A", "C", "G", "T"}
  THEN [exc |-> "None",
        self |-> [exists |-> TRUE,
                  seq |-> gene_seq,
                  codon_length |-> codon_length,
                  n_codons |-> Len(gene_seq) \div codon_length,
                  gene_id |-> gene_id,
                  gene_product |-> gene_product,
                  codon_dict |-> NoAttr,
                  number_imprecise_codons |-> NoAttr,
                  percent_imprecise_codons |-> NoAttr,
                  aa_dict |-> NoAttr]]
  ELSE [exc |-> "LengthMismatch", self |-> NoObject]

Gene__init__(gene_seq, codon_length, gene_id, gene_product) ==
  IF Len(gene_seq) % codon_length = 0
  THEN [exc |-> "None",
        self |-> [exists |-> TRUE,
                  seq |-> gene_seq,
                  codon_length |-> codon_length,
                  n_codons |-> Len(gene_seq) \div codon_length,
                  gene_id |-> gene_id,
                  gene_product |-> gene_product,
                  codon_dict |-> NoAttr,
                  number_imprecise_codons |-> NoAttr,
                  percent_imprecise_codons |-> NoAttr,
                  aa_dict |-> NoAttr]]
  ELSE [exc |-> "LengthMismatch", self |-> NoObject]

\* variant: a window outside the table is dropped without being counted
RECURSIVE CodonWindowLoopDroppingImprecise(_, _, _, _)
CodonWindowLoopDroppingImprecise(self, i, dict, imprecise) ==
  IF i >= Len(self.seq)
  THEN [codon_dict |-> dict, number_imprecise_codons |-> imprecise]
  ELSE LET codon == Slice(self.seq, i, i + self.codon_length) IN
       IF codon \in DOMAIN dict
       THEN CodonWindowLoopDroppingImprecise(self, i + self.codon_length,
                            [dict EXCEPT ![codon] = @ + 1], imprecise)
       ELSE CodonWindowLoopDroppingImprecise(self, i + self.codon_length,
                            dict, imprecise)

\* the window loop of calculate_codon_counts, from offset i
RECURSIVE CodonWindowLoop(_, _, _, _)
CodonWindowLoop(self, i, dict, imprecise) ==
  IF i >= Len(self.seq)
  THEN [codon_dict |-> dict, number_imprecise_codons |-> imprecise]
  ELSE LET codon == Slice(self.seq, i, i + self.codon_length) IN
       IF codon \in DOMAIN dict
       THEN CodonWindowLoop(self, i + self.codon_length,
                            [dict EXCEPT ![codon] = @ + 1], imprecise)
       ELSE CodonWindowLoop(self, i + self.codon_length, dict, imprecise + 1)

calculate_codon_counts(self) ==
  Only({
    LET s1 == [self EXCEPT
                 !.number_imprecise_codons = Attr(counted.number_imprecise_codons),
                 !.codon_dict = Attr(counted.codon_dict)]
    IN IF self.n_codons = 0
       THEN [self |-> s1, exc |-> "ZeroDivisionError"]
       ELSE [self |-> [s1 EXCEPT !.percent_imprecise_codons =
                         Attr(Rat(counted.number_imprecise_codons, self.n_codons))],
             exc |-> "None"]
        : counted \in {CodonWindowLoop(self, 0, [c \in CODON_LIST |-> 0], 0)}})

\* the loop of calculate_aa_counts over the keys of codon_dict: each amino
\* acid receives the counts of the nonzero, non-stop codons that encode it
AaLoop(codon_dict, aa_dict) ==
  Only({
    [aa \in DOMAIN d[2] |->
       d[2][aa] +
         SumOver(d[1],
                 {codon \in DOMAIN d[1] :
                    /\ d[1][codon] # 0 /\ codon \notin stop_codons
                    /\ CODON_TABLE[codon] = aa})]
        : d \in {<<codon_dict, aa_dict>>}})

calculate_aa_counts(self) ==
  LET s1 == [self EXCEPT !.aa_dict = Attr([aa \in AA_LIST |-> 0])] IN
  Only({
    IF r.exc # "None" THEN r
    ELSE [self |-> [r.self EXCEPT !.aa_dict =
                      Attr(AaLoop(Val(r.self.codon_dict), Val(r.self.aa_dict)))],
          exc |-> "None"]
        : r \in {IF ~hasattr(s1.codon_dict)
                 THEN calculate_codon_counts(s1)
                 ELSE [self |-> s1, exc |-> "None"]}})

(***************************************************************************)
(* Specification SpecGene: one Gene built from any sequence over Bases of  *)
(* length at most MaxSeqLen and any codon length of CodonLengths, then any *)
(* sequence of calls of its methods.                                       *)
(***************************************************************************)
Bases == {"A", "T", "G", "N"}
CodonLengths == {2, 3}

SeqsUpTo(n) == UNION {[1..k -> Bases] : k \in 0..n}

InitGene ==
  /\ gs = NoObject
  /\ host = NoObject
  /\ tm = NoObject
  /\ \E s \in SeqsUpTo(MaxSeqLen), cl \in CodonLengths :
       LET r == Gene__init__(s, cl, "", "") IN
       /\ gene = r.self
       /\ last = [op |-> "Gene.__init__", args |-> <<s, cl>>, exc |-> r.exc]

GeneCodonCounts ==
  /\ gene.exists
  /\ \E r \in {calculate_codon_counts(gene)} :
     /\ gene' = r.self
     /\ last' = [op |-> "calculate_codon_counts", args |-> <<>>, exc |-> r.exc]
  /\ UNCHANGED <<gs, host, tm>>

GeneAaCounts ==
  /\ gene.exists
  /\ \E r \in {calculate_aa_counts(gene)} :
     /\ gene' = r.self
     /\ last' = [op |-> "calculate_aa_counts", args |-> <<>>, exc |-> r.exc]
  /\ UNCHANGED <<gs, host, tm>>

NextGene == GeneCodonCounts \/ GeneAaCounts

SpecGene == InitGene /\ [][NextGene]_vars

(***************************************************************************)
(* Collaborator: reverse_complement over a nucleotide string.              *)
(***************************************************************************)
Complement(b) ==
  CASE b = "A" -> "T"
    [] b = "T" -> "A"
    [] b = "C" -> "G"
    [] b = "G" -> "C"
    [] OTHER -> b

reverse_complement(s) ==
  Str([i \in 1..Len(s) |-> Complement(s[Len(s) + 1 - i])])

AA_CONVERSIONS ==
  ("Ala" :> "A") @@ ("Arg" :> "R") @@ ("Asn" :> "N") @@ ("Asp" :> "D") @@
  ("Cys" :> "C") @@ ("Gln" :> "Q") @@ ("Glu" :> "E") @@ ("Gly" :> "G") @@
  ("His" :> "H") @@ ("Ile" :> "I") @@ ("Leu" :> "L") @@ ("Lys" :> "K") @@
  ("Met" :> "M") @@ ("Phe" :> "F") @@ ("Pro" :> "P") @@ ("Ser" :> "S") @@
  ("Thr" :> "T") @@ ("Trp" :> "W") @@ ("Tyr" :> "Y") @@ ("Val" :> "V")

(***************************************************************************)
(* GeneSet                                                                 *)
(*                                                                         *)
(* A record read from the annotated-genes file is [seq, id, product].  A   *)
(* product annotation is kept in the pieces the code takes it apart into:  *)
(* [tRNA, aa3, anticodon], where tRNA says whether the text matches        *)
(* tRNA-\w{3}\(\w{3}\), aa3 is the text between "-" and "(" and anticodon  *)
(* the text between "(" and ")".                                           *)
(***************************************************************************)
\* variant: the first Gene construction failure ends the reading
RECURSIVE ReadLoopAborting(_, _, _, _)
ReadLoopAborting(readout, out, genes, skipped_genes) ==
  IF out > Len(readout)
  THEN [genes |-> genes, skipped_genes |-> skipped_genes]
  ELSE LET r == Gene__init__(readout[out].seq, 3, readout[out].id,
                             readout[out].product)
       IN IF r.exc = "None"
          THEN ReadLoopAborting(readout, out + 1, Append(genes, r.self),
                                skipped_genes)
          ELSE [genes |-> genes,
                skipped_genes |-> Append(skipped_genes, readout[out].id)]

\* the try/except loop of GeneSet.__init__ over the records, from record out
RECURSIVE ReadLoop(_, _, _, _)
ReadLoop(readout, out, genes, skipped_genes) ==
  IF out > Len(readout)
  THEN [genes |-> genes, skipped_genes |-> skipped_genes]
  ELSE LET r == Gene__init__(readout[out].seq, 3, readout[out].id,
                             readout[out].product)
       IN IF r.exc = "None"
          THEN ReadLoop(readout, out + 1, Append(genes, r.self), skipped_genes)
          ELSE ReadLoop(readout, out + 1, genes,
                        Append(skipped_genes, readout[out].id))

GeneSet__init__(readout) ==
  LET read == ReadLoop(readout, 1, <<>>, <<>>) IN
  IF Len(readout) = 0
  THEN [self |-> NoObject, exc |-> "ZeroDivisionError"]
  ELSE [self |-> [exists |-> TRUE,
                  n_records |-> Len(readout),
                  genes |-> read.genes,
                  skipped_genes |-> read.skipped_genes,
                  codon_dict |-> NoAttr,
                  imprecise_codons |-> NoAttr,
                  skipped_imprecise_genes |-> NoAttr,
                  codon_frq |-> NoAttr,
                  aa_dict |-> NoAttr,
                  aa_frq |-> NoAttr,
                  RSCU_dict |-> NoAttr,
                  tRNA_dict_aa |-> NoAttr,
                  tRNA_dict_tcc |-> NoAttr,
                  total_tRNA |-> NoAttr,
                  tRNA_frq_aa |-> NoAttr,
                  tRNA_frq_tcc |-> NoAttr],
        exc |-> "None"]

\* variant: a gene is included only when its imprecise fraction is below the
\* threshold
RECURSIVE GeneLoopStrict(_, _, _)
GeneLoopStrict(self, k, threshold_imprecise) ==
  IF k > Len(self.genes) THEN [self |-> self, exc |-> "None"]
  ELSE Only({
       LET g == r.self
           s1 == [self EXCEPT !.genes[k] = g]
       IN IF r.exc # "None" THEN [self |-> s1, exc |-> r.exc]
          ELSE LET s2 == [s1 EXCEPT !.imprecise_codons =
                            Attr(Val(@) + Val(g.number_imprecise_codons))]
               IN IF ~RatLE(threshold_imprecise, Val(g.percent_imprecise_codons))
                  THEN GeneLoopStrict(
                         [s2 EXCEPT !.codon_dict =
                            Attr([key \in DOMAIN Val(s2.codon_dict) |->
                                    Val(s2.codon_dict)[key] + Val(g.codon_dict)[key]])],
                         k + 1, threshold_imprecise)
                  ELSE GeneLoopStrict(
                         [s2 EXCEPT !.skipped_imprecise_genes =
                            Attr(Append(Val(@), g.gene_id))],
                         k + 1, threshold_imprecise)
             : r \in {calculate_codon_counts(self.genes[k])}})

\* variant: imprecise codons are tallied for the included genes only
RECURSIVE GeneLoopTallyingIncluded(_, _, _)
GeneLoopTallyingIncluded(self, k, threshold_imprecise) ==
  IF k > Len(self.genes) THEN [self |-> self, exc |-> "None"]
  ELSE Only({
       LET g == r.self
           s1 == [self EXCEPT !.genes[k] = g]
       IN IF r.exc # "None" THEN [self |-> s1, exc |-> r.exc]
          ELSE IF RatLE(Val(g.percent_imprecise_codons), threshold_imprecise)
               THEN GeneLoopTallyingIncluded(
                      [s1 EXCEPT
                         !.imprecise_codons =
                            Attr(Val(@) + Val(g.number_imprecise_codons)),
                         !.codon_dict =
                            Attr([key \in DOMAIN Val(s1.codon_dict) |->
                                    Val(s1.codon_dict)[key] + Val(g.codon_dict)[key]])],
                      k + 1, threshold_imprecise)
               ELSE GeneLoopTallyingIncluded(
                      [s1 EXCEPT !.skipped_imprecise_genes =
                         Attr(Append(Val(@), g.gene_id))],
                      k + 1, threshold_imprecise)
             : r \in {calculate_codon_counts(self.genes[k])}})

\* the loop of codon_counts over self.genes, from gene k
RECURSIVE GeneLoop(_, _, _)
GeneLoop(self, k, threshold_imprecise) ==
  IF k > Len(self.genes) THEN [self |-> self, exc |-> "None"]
  ELSE Only({
       LET g == r.self
           s1 == [self EXCEPT !.genes[k] = g]
       IN IF r.exc # "None" THEN [self |-> s1, exc |-> r.exc]
          ELSE LET s2 == [s1 EXCEPT !.imprecise_codons =
                            Attr(Val(@) + Val(g.number_imprecise_codons))]
               IN IF RatLE(Val(g.percent_imprecise_codons), threshold_imprecise)
                  THEN GeneLoop(
                         [s2 EXCEPT !.codon_dict =
                            Attr([key \in DOMAIN Val(s2.codon_dict) |->
                                    Val(s2.codon_dict)[key] + Val(g.codon_dict)[key]])],
                         k + 1, threshold_imprecise)
                  ELSE GeneLoop(
                         [s2 EXCEPT !.skipped_imprecise_genes =
                            Attr(Append(Val(@), g.gene_id))],
                         k + 1, threshold_imprecise)
             : r \in {calculate_codon_counts(self.genes[k])}})

\* variant: the call fails as soon as the skipped ratio reaches the threshold
codon_countsFailingAtThreshold(self, threshold_imprecise, threshold_skipped_genes) ==
  LET s0 == [self EXCEPT !.codon_dict = Attr([c \in CODON_LIST |-> 0]),
                         !.imprecise_codons = Attr(0),
                         !.skipped_imprecise_genes = Attr(<<>>)] IN
  Only({
     IF r.exc # "None" THEN r
     ELSE IF Len(r.self.genes) = 0
     THEN [self |-> r.self, exc |-> "ZeroDivisionError"]
     ELSE IF RatLE(threshold_skipped_genes,
                   Rat(Len(Val(r.self.skipped_imprecise_genes)), Len(r.self.genes)))
     THEN [self |-> r.self, exc |-> "TooManySkippedGenes"]
     ELSE [self |-> r.self, exc |-> "None"]
        : r \in {GeneLoop(s0, 1, threshold_imprecise)}})

codon_counts(self, threshold_imprecise, threshold_skipped_genes) ==
  LET s0 == [self EXCEPT !.codon_dict = Attr([c \in CODON_LIST |-> 0]),
                         !.imprecise_codons = Attr(0),
                         !.skipped_imprecise_genes = Attr(<<>>)] IN
  Only({
     IF r.exc # "None" THEN r
     ELSE IF Len(r.self.genes) = 0
     THEN [self |-> r.self, exc |-> "ZeroDivisionError"]
     ELSE IF RatGT(Rat(Len(Val(r.self.skipped_imprecise_genes)), Len(r.self.genes)),
                   threshold_skipped_genes)
     THEN [self |-> r.self, exc |-> "TooManySkippedGenes"]
     ELSE [self |-> r.self, exc |-> "None"]
        : r \in {GeneLoop(s0, 1, threshold_imprecise)}})

\* variant: counts are normalised by the number of keys of codon_dict
codon_frequencyOverKeys(self, threshold_imprecise, threshold_skipped_genes) ==
  LET s1 == [self EXCEPT !.codon_frq = Attr(<<>>)] IN
  Only({
     IF r.exc # "None" THEN r
     ELSE IF hasattr(r.self.codon_dict)
     THEN Only({
          IF total = 0
          THEN [self |-> r.self, exc |-> "ZeroDivisionError"]
          ELSE [self |-> [r.self EXCEPT !.codon_frq =
                            Attr([k \in DOMAIN Val(r.self.codon_dict) |->
                                    Rat(Val(r.self.codon_dict)[k], total)])],
                exc |-> "None"]
                : total \in {Cardinality(DOMAIN Val(r.self.codon_dict))}})
     ELSE r
        : r \in {IF ~hasattr(s1.codon_dict)
                 THEN codon_counts(s1, threshold_imprecise, threshold_skipped_genes)
                 ELSE [self |-> s1, exc |-> "None"]}})

codon_frequency(self, threshold_imprecise, threshold_skipped_genes) ==
  LET s1 == [self EXCEPT !.codon_frq = Attr(<<>>)] IN
  Only({
     IF r.exc # "None" THEN r
     ELSE IF hasattr(r.self.codon_dict)
     THEN Only({
          IF total = 0
          THEN [self |-> r.self, exc |-> "ZeroDivisionError"]
          ELSE [self |-> [r.self EXCEPT !.codon_frq =
                            Attr([k \in DOMAIN Val(r.self.codon_dict) |->
                                    Rat(Val(r.self.codon_dict)[k], total)])],
                exc |-> "None"]
                : total \in {Sum(Val(r.self.codon_dict))}})
     ELSE r
        : r \in {IF ~hasattr(s1.codon_dict)
                 THEN codon_counts(s1, threshold_imprecise, threshold_skipped_genes)
                 ELSE [self |-> s1, exc |-> "None"]}})

\* the loop of amino_acid_counts over the keys of codon_dict: each amino
\* acid receives the counts of the non-stop codons that encode it
AminoAcidLoop(codon_dict, aa_dict) ==
  Only({
    [aa \in DOMAIN d[2] |->
       d[2][aa] +
         SumOver(d[1],
                 {codon \in DOMAIN d[1] :
                    codon \notin stop_codons /\ CODON_TABLE[codon] = aa})]
        : d \in {<<codon_dict, aa_dict>>}})

\* variant: aa_dict is not reset when it is already present
amino_acid_countsAccumulating(self, threshold_imprecise, threshold_skipped_genes) ==
  LET s1 == IF hasattr(self.aa_dict) THEN self
            ELSE [self EXCEPT !.aa_dict = Attr([aa \in AA_LIST |-> 0])]
  IN
  Only({
     IF r.exc # "None" THEN r
     ELSE IF hasattr(r.self.codon_dict)
     THEN [self |-> [r.self EXCEPT !.aa_dict =
                       Attr(AminoAcidLoop(Val(r.self.codon_dict),
                                          Val(r.self.aa_dict)))],
           exc |-> "None"]
     ELSE r
        : r \in {IF ~hasattr(s1.codon_dict)
                 THEN codon_counts(s1, threshold_imprecise, threshold_skipped_genes)
                 ELSE [self |-> s1, exc |-> "None"]}})

amino_acid_counts(self, threshold_imprecise, threshold_skipped_genes) ==
  LET s1 == [self EXCEPT !.aa_dict = Attr([aa \in AA_LIST |-> 0])]
  IN
  Only({
     IF r.exc # "None" THEN r
     ELSE IF hasattr(r.self.codon_dict)
     THEN [self |-> [r.self EXCEPT !.aa_dict =
                       Attr(AminoAcidLoop(Val(r.self.codon_dict),
                                          Val(r.self.aa_dict)))],
           exc |-> "None"]
     ELSE r
        : r \in {IF ~hasattr(s1.codon_dict)
                 THEN codon_counts(s1, threshold_imprecise, threshold_skipped_genes)
                 ELSE [self |-> s1, exc |-> "None"]}})

\* variant: amino-acid counts are normalised by the codon total
amino_acid_frequencyOverCodons(self, threshold_imprecise, threshold_skipped_genes) ==
  LET s1 == [self EXCEPT !.aa_frq = Attr(<<>>)] IN
  Only({
     IF r.exc # "None" THEN r
     ELSE IF hasattr(r.self.aa_dict)
     THEN Only({
          IF total = 0
          THEN [self |-> r.self, exc |-> "ZeroDivisionError"]
          ELSE [self |-> [r.self EXCEPT !.aa_frq =
                            Attr([k \in DOMAIN Val(r.self.aa_dict) |->
                                    Rat(Val(r.self.aa_dict)[k], total)])],
                exc |-> "None"]
                : total \in {Sum(Val(r.self.codon_dict))}})
     ELSE r
        : r \in {IF ~hasattr(s1.aa_dict)
                 THEN amino_acid_counts(s1, threshold_imprecise, threshold_skipped_genes)
                 ELSE [self |-> s1, exc |-> "None"]}})

amino_acid_frequency(self, threshold_imprecise, threshold_skipped_genes) ==
  LET s1 == [self EXCEPT !.aa_frq = Attr(<<>>)] IN
  Only({
     IF r.exc # "None" THEN r
     ELSE IF hasattr(r.self.aa_dict)
     THEN Only({
          IF total = 0
          THEN [self |-> r.self, exc |-> "ZeroDivisionError"]
          ELSE [self |-> [r.self EXCEPT !.aa_frq =
                            Attr([k \in DOMAIN Val(r.self.aa_dict) |->
                                    Rat(Val(r.self.aa_dict)[k], total)])],
                exc |-> "None"]
                : total \in {Sum(Val(r.self.aa_dict))}})
     ELSE r
        : r \in {IF ~hasattr(s1.aa_dict)
                 THEN amino_acid_counts(s1, threshold_imprecise, threshold_skipped_genes)
                 ELSE [self |-> s1, exc |-> "None"]}})

\* variant: only the synonymous codons that were observed are counted in |S|
RSCU_valueObserved(codon_dict, codon) ==
  LET aa == CODON_TABLE[codon]
      synonymous_codons == {key \in DOMAIN CODON_TABLE :
                             CODON_TABLE[key] = aa /\ codon_dict[key] # 0}
      synonymous_total_count == SumOver(codon_dict, synonymous_codons)
      expected_frequency == Rat(synonymous_total_count, Cardinality(synonymous_codons))
  IN RatDiv(Rat(codon_dict[codon], 1), expected_frequency)

\* variant: the expected frequency is taken from the total over all codons
RSCU_valueOverall(codon_dict, codon) ==
  LET aa == CODON_TABLE[codon]
      synonymous_codons == {key \in DOMAIN CODON_TABLE : CODON_TABLE[key] = aa}
      synonymous_total_count == Sum(codon_dict)
      expected_frequency == Rat(synonymous_total_count, Cardinality(synonymous_codons))
  IN RatDiv(Rat(codon_dict[codon], 1), expected_frequency)

\* variant: the count is divided by the family total, not by the expected
\* frequency
RSCU_valueOfTotal(codon_dict, codon) ==
  LET aa == CODON_TABLE[codon]
      synonymous_codons == {key \in DOMAIN CODON_TABLE : CODON_TABLE[key] = aa}
      synonymous_total_count == SumOver(codon_dict, synonymous_codons)
  IN RatDiv(Rat(codon_dict[codon], 1), Rat(synonymous_total_count, 1))

\* the value RSCU assigns to one codon of nonzero count
RSCU_value(codon_dict, codon) ==
  LET aa == CODON_TABLE[codon]
      synonymous_codons == {key \in DOMAIN CODON_TABLE : CODON_TABLE[key] = aa}
      synonymous_total_count == SumOver(codon_dict, synonymous_codons)
      expected_frequency == Rat(synonymous_total_count, Cardinality(synonymous_codons))
  IN RatDiv(Rat(codon_dict[codon], 1), expected_frequency)

\* variant: the triggered codon_counts runs with its default thresholds
RSCUDefaultThresholds(self, threshold_imprecise, threshold_skipped_genes) ==
  LET s1 == [self EXCEPT !.RSCU_dict = Attr([c \in CODON_LIST |-> Rat(0, 1)])] IN
  Only({
     IF r.exc # "None" THEN r
     ELSE IF hasattr(r.self.codon_dict)
     THEN [self |-> [r.self EXCEPT !.RSCU_dict =
                       Attr([codon \in DOMAIN Val(r.self.codon_dict) |->
                               IF Val(r.self.codon_dict)[codon] # 0
                               THEN RSCU_value(Val(r.self.codon_dict), codon)
                               ELSE Val(r.self.RSCU_dict)[codon]])],
           exc |-> "None"]
     ELSE r
        : r \in {IF ~hasattr(s1.codon_dict)
                 THEN codon_counts(s1, Rat(0, 1), Rat(1, 2))
                 ELSE [self |-> s1, exc |-> "None"]}})

RSCU(self, threshold_imprecise, threshold_skipped_genes) ==
  LET s1 == [self EXCEPT !.RSCU_dict = Attr([c \in CODON_LIST |-> Rat(0, 1)])] IN
  Only({
     IF r.exc # "None" THEN r
     ELSE IF hasattr(r.self.codon_dict)
     THEN [self |-> [r.self EXCEPT !.RSCU_dict =
                       Attr([codon \in DOMAIN Val(r.self.codon_dict) |->
                               IF Val(r.self.codon_dict)[codon] # 0
                               THEN RSCU_value(Val(r.self.codon_dict), codon)
                               ELSE Val(r.self.RSCU_dict)[codon]])],
           exc |-> "None"]
     ELSE r
        : r \in {IF ~hasattr(s1.codon_dict)
                 THEN codon_counts(s1, threshold_imprecise, threshold_skipped_genes)
                 ELSE [self |-> s1, exc |-> "None"]}})

gene_product_pattern_match(gene_product) == gene_product.tRNA

\* variant: the per-codon tally is kept under the anticodon itself
RECURSIVE tRNALoopByAnticodon(_, _)
tRNALoopByAnticodon(self, k) ==
  IF k > Len(self.genes) THEN [self |-> self, exc |-> "None"]
  ELSE LET product == self.genes[k].gene_product IN
       IF gene_product_pattern_match(product)
       THEN LET aa_3 == product.aa3 IN
            IF aa_3 \notin DOMAIN AA_CONVERSIONS
            THEN [self |-> self, exc |-> "KeyError"]
            ELSE LET aa_1 == AA_CONVERSIONS[aa_3]
                     s1 == [self EXCEPT !.tRNA_dict_aa =
                              Attr([Val(@) EXCEPT ![aa_1] = @ + 1])]
                     tcc == Str(product.anticodon)
                 IN IF tcc \notin DOMAIN Val(s1.tRNA_dict_tcc)
                    THEN [self |-> s1, exc |-> "KeyError"]
                    ELSE tRNALoopByAnticodon([s1 EXCEPT !.tRNA_dict_tcc =
                                     Attr([Val(@) EXCEPT ![tcc] = @ + 1])],
                                  k + 1)
       ELSE tRNALoopByAnticodon(self, k + 1)

\* the loop of tRNA_counts over self.genes, from gene k
RECURSIVE tRNALoop(_, _)
tRNALoop(self, k) ==
  IF k > Len(self.genes) THEN [self |-> self, exc |-> "None"]
  ELSE LET product == self.genes[k].gene_product IN
       IF gene_product_pattern_match(product)
       THEN LET aa_3 == product.aa3 IN
            IF aa_3 \notin DOMAIN AA_CONVERSIONS
            THEN [self |-> self, exc |-> "KeyError"]
            ELSE LET aa_1 == AA_CONVERSIONS[aa_3]
                     s1 == [self EXCEPT !.tRNA_dict_aa =
                              Attr([Val(@) EXCEPT ![aa_1] = @ + 1])]
                     tcc == reverse_complement(product.anticodon)
                 IN IF tcc \notin DOMAIN Val(s1.tRNA_dict_tcc)
                    THEN [self |-> s1, exc |-> "KeyError"]
                    ELSE tRNALoop([s1 EXCEPT !.tRNA_dict_tcc =
                                     Attr([Val(@) EXCEPT ![tcc] = @ + 1])],
                                  k + 1)
       ELSE tRNALoop(self, k + 1)

tRNA_counts(self) ==
  LET s0 == [self EXCEPT
               !.tRNA_dict_aa = Attr([aa \in AA_LIST |-> 0]),
               !.tRNA_dict_tcc = Attr([tcc \in CODON_LIST \ stop_codons |-> 0])] IN
  Only({
     IF r.exc # "None" THEN r
     ELSE [self |-> [r.self EXCEPT !.total_tRNA =
                       Attr(Sum(Val(r.self.tRNA_dict_tcc)))],
           exc |-> "None"]
        : r \in {tRNALoop(s0, 1)}})

\* variant: the tallies are divided by total_tRNA whatever its value
tRNA_frequencyUnguarded(self) ==
  Only({
     IF r.exc # "None" THEN r
     ELSE LET s == r.self
              total == Val(s.total_tRNA)
          IN IF total = 0
             THEN [self |-> [s EXCEPT
                     !.tRNA_frq_aa = Attr([k \in DOMAIN Val(s.tRNA_dict_aa) |->
                                             Rat(0, 1)])],
                   exc |-> "ZeroDivisionError"]
             ELSE [self |-> [s EXCEPT
                     !.tRNA_frq_aa = Attr([k \in DOMAIN Val(s.tRNA_dict_aa) |->
                                             Rat(Val(s.tRNA_dict_aa)[k], total)]),
                     !.tRNA_frq_tcc = Attr([k \in DOMAIN Val(s.tRNA_dict_tcc) |->
                                              Rat(Val(s.tRNA_dict_tcc)[k], total)])],
                   exc |-> "None"]
        : r \in {IF \/ ~hasattr(self.tRNA_dict_aa)
                    \/ ~hasattr(self.tRNA_dict_tcc)
                    \/ ~hasattr(self.total_tRNA)
                 THEN tRNA_counts(self)
                 ELSE [self |-> self, exc |-> "None"]}})

tRNA_frequency(self) ==
  Only({
     IF r.exc # "None" THEN r
     ELSE LET s == r.self
              total == Val(s.total_tRNA)
          IN IF total > 0
             THEN [self |-> [s EXCEPT
                     !.tRNA_frq_aa = Attr([k \in DOMAIN Val(s.tRNA_dict_aa) |->
                                             Rat(Val(s.tRNA_dict_aa)[k], total)]),
                     !.tRNA_frq_tcc = Attr([k \in DOMAIN Val(s.tRNA_dict_tcc) |->
                                              Rat(Val(s.tRNA_dict_tcc)[k], total)])],
                   exc |-> "None"]
             ELSE [self |-> [s EXCEPT
                     !.tRNA_frq_aa = Attr([k \in DOMAIN Val(s.tRNA_dict_aa) |->
                                             Rat(0, 1)]),
                     !.tRNA_frq_tcc = Attr([k \in DOMAIN Val(s.tRNA_dict_tcc) |->
                                              Rat(0, 1)])],
                   exc |-> "None"]
        : r \in {IF \/ ~hasattr(self.tRNA_dict_aa)
                    \/ ~hasattr(self.tRNA_dict_tcc)
                    \/ ~hasattr(self.total_tRNA)
                 THEN tRNA_counts(self)
                 ELSE [self |-> self, exc |-> "None"]}})

(***************************************************************************)
(* Inputs of the GeneSet specifications: a file of at most MaxGenes        *)
(* records, and the thresholds of the calls.                               *)
(***************************************************************************)
NoProduct == [tRNA |-> FALSE, aa3 |-> "", anticodon |-> <<>>]
tRNAProduct(aa3, anticodon) == [tRNA |-> TRUE, aa3 |-> aa3, anticodon |-> anticodon]

\* coding records: precise codons (a non-degenerate codon, two codons of a
\* six-codon family, a stop codon), a non-degenerate codon and a window
\* outside the table, all windows outside the table, a length that is not a
\* multiple of 3, no bases
CodingRecords ==
  { [seq |-> <<"A","T","G","T","C","A","T","C","C","T","A","A">>, product |-> NoProduct],
    [seq |-> <<"T","G","G","A","N","G">>, product |-> NoProduct],
    [seq |-> <<"N","N","N">>, product |-> NoProduct],
    [seq |-> <<"A","T","G","T">>, product |-> NoProduct],
    [seq |-> <<>>, product |-> NoProduct] }

\* tRNA gene records: two whose abbreviation and anticodon are in the
\* tables, one (selenocysteine) whose abbreviation is not
tRNARecords ==
  { [seq |-> <<"T","G","G">>, product |-> tRNAProduct("Met", <<"C","A","T">>)],
    [seq |-> <<"T","C","A","T","C","A">>, product |-> tRNAProduct("Ser", <<"T","G","A">>)],
    [seq |-> <<"G","A","A">>, product |-> tRNAProduct("Sec", <<"T","C","A">>)] }

GeneId(i) == <<"g", i>>

\* the files of at most MaxGenes records, no record twice
ReadoutsOf(records) ==
  UNION {{[i \in 1..n |-> [seq |-> f[i].seq, id |-> GeneId(i),
                           product |-> f[i].product]] :
            f \in {h \in [1..n -> records] :
                     \A i, j \in 1..n : h[i] = h[j] => i = j}} :
         n \in 0..MaxGenes}

ThresholdsImprecise == {Rat(0, 1), Rat(1, 1)}
ThresholdsSkipped == {Rat(1, 2), Rat(1, 1)}

InitOf(records) ==
  /\ gene = NoObject
  /\ host = NoObject
  /\ tm = NoObject
  /\ \E readout \in ReadoutsOf(records) :
       \E r \in {GeneSet__init__(readout)} :
       /\ gs = r.self
       /\ last = [op |-> "GeneSet.__init__", args |-> <<readout>>, exc |-> r.exc]

Call(op, args, r) ==
  /\ \E res \in {r} :
       /\ gs' = res.self
       /\ last' = [op |-> op, args |-> args, exc |-> res.exc]
  /\ UNCHANGED <<gene, host, tm>>

CodonCounts ==
  /\ gs.exists
  /\ \E ti \in ThresholdsImprecise, ts \in ThresholdsSkipped :
       Call("codon_counts", <<ti, ts>>, codon_counts(gs, ti, ts))

CodonFrequency ==
  /\ gs.exists
  /\ \E ti \in ThresholdsImprecise, ts \in ThresholdsSkipped :
       Call("codon_frequency", <<ti, ts>>, codon_frequency(gs, ti, ts))

AminoAcidCounts ==
  /\ gs.exists
  /\ \E ti \in ThresholdsImprecise, ts \in ThresholdsSkipped :
       Call("amino_acid_counts", <<ti, ts>>, amino_acid_counts(gs, ti, ts))

AminoAcidFrequency ==
  /\ gs.exists
  /\ \E ti \in ThresholdsImprecise, ts \in ThresholdsSkipped :
       Call("amino_acid_frequency", <<ti, ts>>, amino_acid_frequency(gs, ti, ts))

Rscu ==
  /\ gs.exists
  /\ \E ti \in ThresholdsImprecise, ts \in ThresholdsSkipped :
       Call("RSCU", <<ti, ts>>, RSCU(gs, ti, ts))

TrnaCounts ==
  /\ gs.exists
  /\ Call("tRNA_counts", <<>>, tRNA_counts(gs))

TrnaFrequency ==
  /\ gs.exists
  /\ Call("tRNA_frequency", <<>>, tRNA_frequency(gs))

(***************************************************************************)
(* Specification Spec: one GeneSet of coding records, then any sequence of *)
(* calls of the codon pipeline (codon_counts, codon_frequency,             *)
(* amino_acid_counts, amino_acid_frequency, RSCU) with any thresholds.     *)
(***************************************************************************)
Init == InitOf(CodingRecords)

Next ==
  \/ CodonCounts
  \/ CodonFrequency
  \/ AminoAcidCounts
  \/ AminoAcidFrequency
  \/ Rscu

Spec == Init /\ [][Next]_vars

(***************************************************************************)
(* Specification SpecFrq: one GeneSet of coding and tRNA gene records,     *)
(* then any sequence of calls of the three frequency methods and of        *)
(* tRNA_counts.                                                            *)
(***************************************************************************)
InitFrq == InitOf(CodingRecords \cup tRNARecords)

NextFrq ==
  \/ CodonFrequency
  \/ AminoAcidFrequency
  \/ TrnaCounts
  \/ TrnaFrequency

SpecFrq == InitFrq /\ [][NextFrq]_vars

(***************************************************************************)
(* Specification SpecAa: either one Gene or one GeneSet, then any sequence *)
(* of calls of the codon-count and amino-acid-count methods of that        *)
(* object.                                                                 *)
(***************************************************************************)
InitAa == InitGene \/ Init

NextAa ==
  \/ GeneCodonCounts
  \/ GeneAaCounts
  \/ CodonCounts
  \/ AminoAcidCounts

SpecAa == InitAa /\ [][NextAa]_vars

(***************************************************************************)
(* Specification SpecScenario: the GeneSet of the test file with the one   *)
(* 12-base gene ATGTCATCCGAA, then any sequence of calls of the codon      *)
(* pipeline with any thresholds.                                           *)
(***************************************************************************)
ScenarioRecord ==
  [seq |-> <<"A","T","G","T","C","A","T","C","C","G","A","A">>, product |-> NoProduct]

InitScenario == InitOf({ScenarioRecord})

SpecScenario == InitScenario /\ [][Next]_vars

(***************************************************************************)
(* tRNAMetrics                                                             *)
(*                                                                         *)
(* The object keeps references to its two GeneSets: virus_GeneSet is the   *)
(* GeneSet in gs and host_GeneSet the GeneSet in host, and its methods act *)
(* on them there.  A method is an operator to [self, virus, host, exc].    *)
(* A Spearman coefficient is kept as the pair of aligned vectors it is     *)
(* the rank correlation of.                                                *)
(***************************************************************************)
\* the strings that are keys, in the order of Python's sorted()
SortedKeys ==
  <<"A", "C", "D", "E", "F", "G", "H", "I", "K", "L",
    "M", "N", "P", "Q", "R", "S", "T", "V", "W", "Y">> \o
  [i \in 1..64 |->
     LET B == <<"A", "C", "G", "T">>
     IN B[((i - 1) \div 16) + 1] \o B[(((i - 1) \div 4) % 4) + 1]
          \o B[((i - 1) % 4) + 1]]

\* sorted(d) for a dict d: its keys in sorted order
sorted(d) == SelectSeq(SortedKeys, LAMBDA k : k \in DOMAIN d)

\* d.get(key, 0)
get(d, key) == IF key \in DOMAIN d THEN d[key] ELSE 0

\* scipy.stats.spearmanr(a, b).statistic
spearmanr(a, b) == [a |-> a, b |-> b]

\* variant: the host GeneSet is left as it was given
tRNAMetrics__init__VirusOnly(virus_GeneSet, host_GeneSet) ==
  Only({
    IF v.exc # "None"
    THEN [self |-> NoObject, virus |-> v.self, host |-> host_GeneSet, exc |-> v.exc]
    ELSE [self |-> [exists |-> TRUE,
                    virusTAAI_hosttRNA |-> NoAttr,
                    virusTAAI_totaltRNA |-> NoAttr,
                    virusTCAI_hosttRNA |-> NoAttr,
                    virusTCAI_totaltRNA |-> NoAttr],
          virus |-> v.self, host |-> host_GeneSet, exc |-> "None"]
    : v \in {IF ~hasattr(virus_GeneSet.tRNA_frq_aa)
             THEN tRNA_frequency(virus_GeneSet)
             ELSE [self |-> virus_GeneSet, exc |-> "None"]}})

tRNAMetrics__init__(virus_GeneSet, host_GeneSet) ==
  Only({
    IF v.exc # "None"
    THEN [self |-> NoObject, virus |-> v.self, host |-> host_GeneSet, exc |-> v.exc]
    ELSE Only({
         IF h.exc # "None"
         THEN [self |-> NoObject, virus |-> v.self, host |-> h.self, exc |-> h.exc]
         ELSE [self |-> [exists |-> TRUE,
                         virusTAAI_hosttRNA |-> NoAttr,
                         virusTAAI_totaltRNA |-> NoAttr,
                         virusTCAI_hosttRNA |-> NoAttr,
                         virusTCAI_totaltRNA |-> NoAttr],
               virus |-> v.self, host |-> h.self, exc |-> "None"]
         : h \in {IF ~hasattr(host_GeneSet.tRNA_frq_aa)
                  THEN tRNA_frequency(host_GeneSet)
                  ELSE [self |-> host_GeneSet, exc |-> "None"]}})
    : v \in {IF ~hasattr(virus_GeneSet.tRNA_frq_aa)
             THEN tRNA_frequency(virus_GeneSet)
             ELSE [self |-> virus_GeneSet, exc |-> "None"]}})

\* the pooled part of virus_TAAI, after virusTAAI_hosttRNA is set
TAAI_total(self, virus_GeneSet, host_GeneSet, sorted_keys, virus_aa_frq_values) ==
  Only({
    IF Sum(total_tRNA_dict_aa) = 0 /\ DOMAIN total_tRNA_dict_aa # {}
    THEN [self |-> self, virus |-> virus_GeneSet, host |-> host_GeneSet, exc |-> "ZeroDivisionError"]
    ELSE IF \E i \in 1..Len(sorted_keys) : sorted_keys[i] \notin DOMAIN total_tRNA_dict_aa
    THEN [self |-> self, virus |-> virus_GeneSet, host |-> host_GeneSet, exc |-> "KeyError"]
    ELSE [self |-> [self EXCEPT !.virusTAAI_totaltRNA =
                      Attr(spearmanr(virus_aa_frq_values,
                                     [i \in 1..Len(sorted_keys) |->
                                        Rat(total_tRNA_dict_aa[sorted_keys[i]],
                                            Sum(total_tRNA_dict_aa))]))],
          virus |-> virus_GeneSet, host |-> host_GeneSet, exc |-> "None"]
    : total_tRNA_dict_aa \in
        {[key \in DOMAIN Val(host_GeneSet.tRNA_dict_aa) \cup DOMAIN Val(virus_GeneSet.tRNA_dict_aa) |->
            get(Val(host_GeneSet.tRNA_dict_aa), key) + get(Val(virus_GeneSet.tRNA_dict_aa), key)]}})

virus_TAAI(self, virus_GeneSet, host_GeneSet, include_virus_tRNA) ==
  Only({
    IF v.exc # "None"
    THEN [self |-> self, virus |-> v.self, host |-> host_GeneSet, exc |-> v.exc]
    ELSE Only({
         IF \E i \in 1..Len(sorted_keys) :
              sorted_keys[i] \notin DOMAIN Val(host_GeneSet.tRNA_frq_aa)
         THEN [self |-> self, virus |-> v.self, host |-> host_GeneSet,
               exc |-> "KeyError"]
         ELSE Only({
              IF include_virus_tRNA
              THEN TAAI_total([self EXCEPT !.virusTAAI_hosttRNA = Attr(res)],
                              v.self, host_GeneSet, sorted_keys, res.a)
              ELSE [self |-> [self EXCEPT !.virusTAAI_hosttRNA = Attr(res)],
                    virus |-> v.self, host |-> host_GeneSet, exc |-> "None"]
              : res \in {spearmanr(
                           [i \in 1..Len(sorted_keys) |->
                              Val(v.self.aa_frq)[sorted_keys[i]]],
                           [i \in 1..Len(sorted_keys) |->
                              Val(host_GeneSet.tRNA_frq_aa)[sorted_keys[i]]])}})
         : sorted_keys \in {sorted(Val(v.self.aa_frq))}})
    : v \in {IF ~hasattr(virus_GeneSet.aa_frq)
             THEN amino_acid_frequency(virus_GeneSet, Rat(0, 1), Rat(1, 2))
             ELSE [self |-> virus_GeneSet, exc |-> "None"]}})

\* {k: v for k, v in d.items() if k not in irrelevant_codons}
Without(d, irrelevant_codons) == [k \in DOMAIN d \ irrelevant_codons |-> d[k]]

\* the pooled part of virus_TCAI, after virusTCAI_hosttRNA is set
TCAI_total(self, virus_GeneSet, host_GeneSet, sorted_keys, virus_codon_frq_values, host_tRNA_dict_tcc, virus_tRNA_dict_tcc) ==
  Only({
    IF Len(sorted_keys) > 0 /\ sorted_keys[1] \notin DOMAIN total_tRNA_dict_tcc
    THEN [self |-> self, virus |-> virus_GeneSet, host |-> host_GeneSet, exc |-> "KeyError"]
    ELSE IF Len(sorted_keys) > 0 /\ Sum(total_tRNA_dict_tcc) = 0
    THEN [self |-> self, virus |-> virus_GeneSet, host |-> host_GeneSet, exc |-> "ZeroDivisionError"]
    ELSE IF \E i \in 1..Len(sorted_keys) : sorted_keys[i] \notin DOMAIN total_tRNA_dict_tcc
    THEN [self |-> self, virus |-> virus_GeneSet, host |-> host_GeneSet, exc |-> "KeyError"]
    ELSE [self |-> [self EXCEPT !.virusTCAI_totaltRNA =
                      Attr(spearmanr(virus_codon_frq_values,
                                     [i \in 1..Len(sorted_keys) |->
                                        Rat(total_tRNA_dict_tcc[sorted_keys[i]],
                                            Sum(total_tRNA_dict_tcc))]))],
          virus |-> virus_GeneSet, host |-> host_GeneSet, exc |-> "None"]
    : total_tRNA_dict_tcc \in
        {[key \in DOMAIN host_tRNA_dict_tcc \cup DOMAIN virus_tRNA_dict_tcc |->
            get(host_tRNA_dict_tcc, key) + get(virus_tRNA_dict_tcc, key)]}})

\* the codons left out of the aligned keys
irrelevant_codons(skip_nondeg_codons) ==
  IF skip_nondeg_codons THEN non_degenerate_codons \cup stop_codons
  ELSE stop_codons

virus_TCAI(self, virus_GeneSet, host_GeneSet, skip_nondeg_codons, include_virus_tRNA) ==
  Only({
    IF v.exc # "None"
    THEN [self |-> self, virus |-> v.self, host |-> host_GeneSet, exc |-> v.exc]
    ELSE Only({
         IF \E i \in 1..Len(sorted_keys) :
              sorted_keys[i] \notin DOMAIN Val(host_GeneSet.tRNA_frq_tcc)
         THEN [self |-> self, virus |-> v.self, host |-> host_GeneSet,
               exc |-> "KeyError"]
         ELSE Only({
              IF include_virus_tRNA
              THEN TCAI_total([self EXCEPT !.virusTCAI_hosttRNA = Attr(res)],
                              v.self, host_GeneSet, sorted_keys, res.a,
                              Without(Val(host_GeneSet.tRNA_dict_tcc),
                                      irrelevant_codons(skip_nondeg_codons)),
                              Without(Val(v.self.tRNA_dict_tcc),
                                      irrelevant_codons(skip_nondeg_codons)))
              ELSE [self |-> [self EXCEPT !.virusTCAI_hosttRNA = Attr(res)],
                    virus |-> v.self, host |-> host_GeneSet, exc |-> "None"]
              : res \in {spearmanr(
                           [i \in 1..Len(sorted_keys) |->
                              Val(v.self.codon_frq)[sorted_keys[i]]],
                           [i \in 1..Len(sorted_keys) |->
                              Val(host_GeneSet.tRNA_frq_tcc)[sorted_keys[i]]])}})
         : sorted_keys \in
             {SelectSeq(sorted(Val(v.self.codon_frq)),
                        LAMBDA key : key \notin irrelevant_codons(skip_nondeg_codons))}})
    : v \in {IF ~hasattr(virus_GeneSet.codon_frq)
             THEN codon_frequency(virus_GeneSet, Rat(0, 1), Rat(1, 2))
             ELSE [self |-> virus_GeneSet, exc |-> "None"]}})

(***************************************************************************)
(* Specification SpecTm: a virus GeneSet and a host GeneSet, each read     *)
(* from a file of 1 to MaxGenes records; any tRNA operations on            *)
(* either; then a tRNAMetrics object is constructed from the two and       *)
(* virus_TAAI and virus_TCAI are called on it, with any flags, any number  *)
(* of times.                                                               *)
(***************************************************************************)
\* virus records: a coding gene of precise codons, a coding gene whose only
\* window is outside the table, a tRNA gene
VirusRecords ==
  { [seq |-> <<"A","T","G","T","C","A","T","C","C","T","A","A">>, product |-> NoProduct],
    [seq |-> <<"N","N","N">>, product |-> NoProduct],
    [seq |-> <<"T","G","G">>, product |-> tRNAProduct("Met", <<"C","A","T">>)] }

\* host records: a coding gene, a tRNA gene, a tRNA gene whose abbreviation
\* is not in the table
HostRecords ==
  { [seq |-> <<"A","T","G","T","C","A","T","C","C","T","A","A">>, product |-> NoProduct],
    [seq |-> <<"T","C","A","T","C","A">>, product |-> tRNAProduct("Ser", <<"T","G","A">>)],
    [seq |-> <<"G","A","A">>, product |-> tRNAProduct("Sec", <<"T","C","A">>)] }

\* the files of 1 to MaxGenes records, no record twice
TmReadoutsOf(records) ==
  {readout \in ReadoutsOf(records) : Len(readout) > 0}

InitTm ==
  /\ gene = NoObject
  /\ tm = NoObject
  /\ \E readout \in TmReadoutsOf(VirusRecords) :
       \E r \in {GeneSet__init__(readout)} :
       /\ gs = r.self
       /\ last = [op |-> "GeneSet.__init__", args |-> <<readout>>, exc |-> r.exc]
  /\ \E readout \in TmReadoutsOf(HostRecords) :
       \E r \in {GeneSet__init__(readout)} :
       host = r.self

\* an operation on the host GeneSet
HostCall(op, r) ==
  /\ \E res \in {r} :
       /\ host' = res.self
       /\ last' = [op |-> op, args |-> <<>>, exc |-> res.exc]
  /\ UNCHANGED <<gene, gs, tm>>

VirusTrnaCounts == ~tm.exists /\ TrnaCounts

VirusTrnaFrequency == ~tm.exists /\ TrnaFrequency

HostTrnaCounts ==
  /\ ~tm.exists
  /\ HostCall("host.tRNA_counts", tRNA_counts(host))

HostTrnaFrequency ==
  /\ ~tm.exists
  /\ HostCall("host.tRNA_frequency", tRNA_frequency(host))

\* tRNAMetrics(virus_GeneSet, host_GeneSet); no object when it raises
Construct ==
  /\ ~tm.exists
  /\ \E r \in {tRNAMetrics__init__(gs, host)} :
       /\ tm' = r.self
       /\ gs' = r.virus
       /\ host' = r.host
       /\ last' = [op |-> "tRNAMetrics.__init__", args |-> <<>>, exc |-> r.exc]
  /\ UNCHANGED gene

VirusTAAI ==
  /\ tm.exists
  /\ \E include_virus_tRNA \in BOOLEAN :
       \E r \in {virus_TAAI(tm, gs, host, include_virus_tRNA)} :
       /\ tm' = r.self
       /\ gs' = r.virus
       /\ host' = r.host
       /\ last' = [op |-> "virus_TAAI", args |-> <<include_virus_tRNA>>,
                   exc |-> r.exc]
  /\ UNCHANGED gene

VirusTCAI ==
  /\ tm.exists
  /\ \E skip_nondeg_codons \in BOOLEAN, include_virus_tRNA \in BOOLEAN :
       \E r \in {virus_TCAI(tm, gs, host, skip_nondeg_codons, include_virus_tRNA)} :
       /\ tm' = r.self
       /\ gs' = r.virus
       /\ host' = r.host
       /\ last' = [op |-> "virus_TCAI",
                   args |-> <<skip_nondeg_codons, include_virus_tRNA>>,
                   exc |-> r.exc]
  /\ UNCHANGED gene

NextTm ==
  \/ VirusTrnaCounts
  \/ VirusTrnaFrequency
  \/ HostTrnaCounts
  \/ HostTrnaFrequency
  \/ Construct
  \/ VirusTAAI
  \/ VirusTCAI

SpecTm == InitTm /\ [][NextTm]_vars

(***************************************************************************)
(* Vocabulary of the properties, stated on the inputs and not through the  *)
(* operators above: the windows of a gene and what they count to.          *)
(***************************************************************************)
NumWindows(g) == Len(g.seq) \div g.codon_length

Window(g, k) ==
  Str([j \in 1..g.codon_length |-> g.seq[(k - 1) * g.codon_length + j]])

WindowCount(g, c) == Cardinality({k \in 1..NumWindows(g) : Window(g, k) = c})

ImpreciseWindows(g) ==
  Cardinality({k \in 1..NumWindows(g) : Window(g, k) \notin DOMAIN CODON_TABLE})

\* the retained genes whose imprecise fraction is at most ti / above ti
IncludedGenes(ti) ==
  {k \in 1..Len(gs.genes) :
     ImpreciseWindows(gs.genes[k]) * ti.den <= ti.num * NumWindows(gs.genes[k])}

SkippedGenes(ti) == (1..Len(gs.genes)) \ IncludedGenes(ti)

\* every retained gene has at least one codon, and there is a retained gene
AllGenesCounted ==
  /\ Len(gs.genes) > 0
  /\ \A k \in 1..Len(gs.genes) : NumWindows(gs.genes[k]) > 0

\* the fractions frq[k] have one denominator and their numerators sum to it
SumsToOne(frq) ==
  \E d \in {frq[k].den : k \in DOMAIN frq} :
    /\ \A k \in DOMAIN frq : frq[k].den = d
    /\ SumOver([k \in DOMAIN frq |-> frq[k].num], DOMAIN frq) = d

\* frq is cnt normalised by its nonzero total
IsFrequencyOf(frq, cnt) ==
  /\ DOMAIN frq = DOMAIN cnt
  /\ Sum(cnt) # 0
  /\ \A k \in DOMAIN cnt : RatEq(frq[k], Rat(cnt[k], Sum(cnt)))
  /\ SumsToOne(frq)

\* aa is cd summed per amino acid, stop codons dropped
IsAminoAcidCountOf(aa, cd) ==
  /\ DOMAIN aa = AA_LIST
  /\ Cardinality(DOMAIN aa) = 20
  /\ \A a \in DOMAIN aa :
       aa[a] = SumOver(cd, {c \in DOMAIN cd : CODON_TABLE[c] = a})
  /\ Sum(aa) = Sum(cd) - SumOver(cd, {"TAA", "TAG", "TGA"})

SynonymousFamily(c) == {d \in DOMAIN CODON_TABLE : CODON_TABLE[d] = CODON_TABLE[c]}

(***************************************************************************)
(* Properties of Gene (specification SpecGene).                            *)
(***************************************************************************)

\* C1: Gene construction fails if and only if the sequence length is not a
\* multiple of the codon length; an accepted sequence may hold any
\* characters, and calculate_codon_counts counts each of its windows that is
\* not a table codon as imprecise.
C1_OnlyLengthIsValidated ==
  /\ last.op = "Gene.__init__" =>
       /\ (last.exc # "None") <=> (Len(last.args[1]) % last.args[2] # 0)
       /\ gene.exists <=> (last.exc = "None")
  /\ gene.exists /\ hasattr(gene.number_imprecise_codons) =>
       Val(gene.number_imprecise_codons) = ImpreciseWindows(gene)

C1_Witness ==
  /\ gene.exists
  /\ last.op = "calculate_codon_counts"
  /\ \E i \in 1..Len(gene.seq) : gene.seq[i] = "N"
  /\ Val(gene.number_imprecise_codons) > 0
  /\ Sum(Val(gene.codon_dict)) > 0

\* C4: after calculate_codon_counts the codon counts of a Gene sum to the
\* number of codon windows minus number_imprecise_codons, and the keys of
\* codon_dict are the 64 table codons.
C4_GeneCountsSum ==
  gene.exists /\ hasattr(gene.codon_dict) =>
    /\ Sum(Val(gene.codon_dict)) =
         NumWindows(gene) - Val(gene.number_imprecise_codons)
    /\ DOMAIN Val(gene.codon_dict) = DOMAIN CODON_TABLE
    /\ Cardinality(DOMAIN Val(gene.codon_dict)) = 64
    /\ \A c \in DOMAIN CODON_TABLE : Val(gene.codon_dict)[c] = WindowCount(gene, c)

C4_Witness ==
  /\ gene.exists
  /\ last.op = "calculate_codon_counts"
  /\ NumWindows(gene) = 2
  /\ Val(gene.number_imprecise_codons) = 1
  /\ Sum(Val(gene.codon_dict)) = 1

(***************************************************************************)
(* Properties of GeneSet.                                                  *)
(***************************************************************************)
LastIs(op) == gs.exists /\ last.op = op

\* the skipped ratio of the last codon_counts call, from the inputs
SkippedRatio == Rat(Cardinality(SkippedGenes(last.args[1])), Len(gs.genes))

\* C2: once codon_counts has processed all retained genes, it fails with
\* TooManySkippedGenes if and only if skipped genes / retained genes is
\* strictly greater than threshold_skipped_genes; at or below the threshold
\* (equality included) the call succeeds and the aggregate stands.
C2_TooManySkippedIffAboveThreshold ==
  LastIs("codon_counts") /\ AllGenesCounted =>
    /\ (last.exc = "TooManySkippedGenes") <=> RatGT(SkippedRatio, last.args[2])
    /\ RatLE(SkippedRatio, last.args[2]) =>
         last.exc = "None" /\ hasattr(gs.codon_dict)

\* half of two genes skipped at threshold 1/2: the call succeeds
C2_Witness ==
  /\ LastIs("codon_counts") /\ AllGenesCounted
  /\ last.args[2] = Rat(1, 2)
  /\ Len(gs.genes) = 2
  /\ Cardinality(SkippedGenes(last.args[1])) = 1
  /\ last.exc = "None"

\* C3: in codon_counts a retained gene contributes its codon counts to the
\* aggregate if and only if its imprecise fraction is <= threshold_imprecise;
\* every other retained gene has its id appended once to
\* skipped_imprecise_genes and contributes nothing, so codon_dict[c] is the
\* sum of the per-gene counts of c over exactly the included genes.
C3_AggregateOverIncludedGenes ==
  LastIs("codon_counts") /\ AllGenesCounted =>
    LET ti == last.args[1]
        n == Len(gs.genes)
        skippedIdx == SelectSeq([k \in 1..n |-> k], LAMBDA k : k \in SkippedGenes(ti))
    IN /\ \A c \in DOMAIN CODON_TABLE :
            Val(gs.codon_dict)[c] =
              SumOver([k \in 1..n |-> WindowCount(gs.genes[k], c)], IncludedGenes(ti))
       /\ Val(gs.skipped_imprecise_genes) =
            [j \in 1..Len(skippedIdx) |-> gs.genes[skippedIdx[j]].gene_id]

\* one gene included, one gene with precise codons skipped
C3_Witness ==
  /\ LastIs("codon_counts") /\ AllGenesCounted
  /\ last.exc = "None"
  /\ \E k \in SkippedGenes(last.args[1]) :
       NumWindows(gs.genes[k]) > ImpreciseWindows(gs.genes[k])
  /\ IncludedGenes(last.args[1]) # {}
  /\ Sum(Val(gs.codon_dict)) > 0

TotalWindows(S) == SumOver([k \in 1..Len(gs.genes) |-> NumWindows(gs.genes[k])], S)
TotalImprecise(S) ==
  SumOver([k \in 1..Len(gs.genes) |-> ImpreciseWindows(gs.genes[k])], S)

\* C5 as stated: after a successful codon_counts the aggregate counts sum to
\* the number of codons of all retained genes minus imprecise_codons.
C5_AggregateSumOverRetained ==
  LastIs("codon_counts") /\ last.exc = "None" =>
    Sum(Val(gs.codon_dict)) =
      TotalWindows(1..Len(gs.genes)) - Val(gs.imprecise_codons)

\* C5: after a successful codon_counts the aggregate counts sum to the
\* number of codons of the included genes minus the imprecise codons of the
\* included genes, while imprecise_codons counts the imprecise codons of all
\* retained genes: the sum is the codons of all retained genes minus
\* imprecise_codons minus the precise codons of the skipped genes.
C5_AggregateSumOverIncluded ==
  LastIs("codon_counts") /\ last.exc = "None" =>
    LET all == 1..Len(gs.genes)
        inc == IncludedGenes(last.args[1])
        skp == SkippedGenes(last.args[1])
    IN /\ Sum(Val(gs.codon_dict)) = TotalWindows(inc) - TotalImprecise(inc)
       /\ Val(gs.imprecise_codons) = TotalImprecise(all)
       /\ Sum(Val(gs.codon_dict)) =
            TotalWindows(all) - Val(gs.imprecise_codons)
              - (TotalWindows(skp) - TotalImprecise(skp))

\* a successful call that skipped a gene holding a precise codon
C5_Witness ==
  /\ LastIs("codon_counts") /\ last.exc = "None"
  /\ \E k \in SkippedGenes(last.args[1]) :
       NumWindows(gs.genes[k]) > ImpreciseWindows(gs.genes[k])
  /\ Val(gs.imprecise_codons) > 0

\* C6: an amino-acid-count mapping (Gene.calculate_aa_counts,
\* GeneSet.amino_acid_counts) gives each of the 20 amino acids the sum of the
\* counts of the codons that encode it, and sums to the codon-count sum
\* minus the counts of TAA, TAG and TGA: stop-codon counts are dropped.
C6_AminoAcidCounts ==
  /\ gene.exists /\ hasattr(gene.aa_dict) =>
       /\ hasattr(gene.codon_dict)
       /\ IsAminoAcidCountOf(Val(gene.aa_dict), Val(gene.codon_dict))
  /\ LastIs("amino_acid_counts") /\ last.exc = "None" =>
       IsAminoAcidCountOf(Val(gs.aa_dict), Val(gs.codon_dict))

\* a GeneSet whose aggregate holds a stop codon and two serine codons
C6_Witness ==
  /\ LastIs("amino_acid_counts") /\ last.exc = "None"
  /\ Val(gs.codon_dict)["TAA"] > 0
  /\ Val(gs.aa_dict)["S"] = 2
  /\ Sum(Val(gs.aa_dict)) < Sum(Val(gs.codon_dict))

ZeroTotal(cnt) == hasattr(cnt) /\ Sum(Val(cnt)) = 0

\* C7: when the aggregate counts are all zero, codon_frequency and
\* amino_acid_frequency return normally and leave their frequency mappings
\* all-zero over the key universe of the counts.
C7_ZeroTotalLeavesZeroFrequencies ==
  /\ LastIs("codon_frequency") /\ AllGenesCounted
       /\ last.exc # "TooManySkippedGenes" /\ ZeroTotal(gs.codon_dict) =>
       /\ last.exc = "None"
       /\ DOMAIN Val(gs.codon_frq) = DOMAIN Val(gs.codon_dict)
       /\ \A k \in DOMAIN Val(gs.codon_frq) : Val(gs.codon_frq)[k].num = 0
  /\ LastIs("amino_acid_frequency") /\ AllGenesCounted
       /\ last.exc # "TooManySkippedGenes" /\ ZeroTotal(gs.aa_dict) =>
       /\ last.exc = "None"
       /\ DOMAIN Val(gs.aa_frq) = DOMAIN Val(gs.aa_dict)
       /\ \A k \in DOMAIN Val(gs.aa_frq) : Val(gs.aa_frq)[k].num = 0

NonEmpty(frq) == hasattr(frq) /\ Val(frq) # <<>>

\* C8: a frequency mapping derived from a count mapping of nonzero total
\* (codon_frq, aa_frq, tRNA_frq_aa, tRNA_frq_tcc) has the keys of the count
\* mapping, each entry equal to count / total, and entries summing to 1.
C8_FrequenciesNormalised ==
  gs.exists =>
    /\ NonEmpty(gs.codon_frq) => IsFrequencyOf(Val(gs.codon_frq), Val(gs.codon_dict))
    /\ NonEmpty(gs.aa_frq) => IsFrequencyOf(Val(gs.aa_frq), Val(gs.aa_dict))
    /\ hasattr(gs.tRNA_frq_aa) /\ Val(gs.total_tRNA) > 0 =>
         /\ IsFrequencyOf(Val(gs.tRNA_frq_aa), Val(gs.tRNA_dict_aa))
         /\ IsFrequencyOf(Val(gs.tRNA_frq_tcc), Val(gs.tRNA_dict_tcc))

\* all four frequency mappings computed from nonzero totals, a stop codon
\* among the codon counts
C8_Witness ==
  /\ gs.exists
  /\ NonEmpty(gs.codon_frq) /\ NonEmpty(gs.aa_frq)
  /\ Val(gs.codon_dict)["TAA"] > 0
  /\ hasattr(gs.tRNA_frq_aa) /\ Val(gs.total_tRNA) > 0
  /\ Val(gs.tRNA_frq_aa)["M"].num > 0

\* C9: RSCU gives every codon c of nonzero aggregate count the value
\* count(c) / (T / |S|), S the table codons encoding the same amino acid (or
\* stop) as c and T the sum of the aggregate counts over S; every codon of
\* zero count has RSCU 0; the result is keyed by the 64 codons.
C9_RSCUValues ==
  LastIs("RSCU") /\ last.exc = "None" =>
    LET cd == Val(gs.codon_dict)
        rscu == Val(gs.RSCU_dict)
    IN /\ DOMAIN rscu = DOMAIN CODON_TABLE
       /\ Cardinality(DOMAIN rscu) = 64
       /\ \A c \in DOMAIN rscu :
            IF cd[c] # 0
            THEN /\ rscu[c].den # 0
                 /\ rscu[c].num * SumOver(cd, SynonymousFamily(c)) =
                      cd[c] * Cardinality(SynonymousFamily(c)) * rscu[c].den
            ELSE rscu[c].num = 0 /\ rscu[c].den # 0

\* two of the six serine codons observed once each: RSCU 3 for both
C9_Witness ==
  /\ LastIs("RSCU") /\ last.exc = "None"
  /\ Val(gs.codon_dict)["TCA"] = 1 /\ Val(gs.codon_dict)["TCC"] = 1
  /\ RatEq(Val(gs.RSCU_dict)["TCA"], Rat(3, 1))
  /\ RatEq(Val(gs.RSCU_dict)["TAA"], Rat(3, 1))
  /\ RatEq(Val(gs.RSCU_dict)["TCG"], Rat(0, 1))

\* C10: the RSCU of a non-degenerate codon (ATG, TGG: the only codon of its
\* amino acid) is exactly 1 whenever its aggregate count is nonzero,
\* whatever the counts of the other codons.
C10_NonDegenerateRSCUIsOne ==
  /\ non_degenerate_codons = {"ATG", "TGG"}
  /\ LastIs("RSCU") /\ last.exc = "None" =>
       \A c \in non_degenerate_codons :
         Val(gs.codon_dict)[c] # 0 =>
           /\ Val(gs.RSCU_dict)[c].den # 0
           /\ Val(gs.RSCU_dict)[c].num = Val(gs.RSCU_dict)[c].den

\* both non-degenerate codons observed, ATG twice, among other codons
C10_Witness ==
  /\ LastIs("RSCU") /\ last.exc = "None"
  /\ Val(gs.codon_dict)["ATG"] > 0
  /\ Val(gs.codon_dict)["TGG"] > 0
  /\ Sum(Val(gs.codon_dict)) > Val(gs.codon_dict)["ATG"] + Val(gs.codon_dict)["TGG"]
  /\ RatEq(Val(gs.RSCU_dict)["ATG"], Rat(1, 1))

(***************************************************************************)
(* The scenario of the test file (specification SpecScenario).             *)
(***************************************************************************)
ScenarioCodons == {"ATG", "TCA", "TCC", "GAA"}

\* the fraction q is the integer ratio n / d
IsRatio(q, n, d) == q.den # 0 /\ q.num * d = n * q.den

\* C11: for the GeneSet of the single gene ATGTCATCCGAA every call of the
\* pipeline returns, and whichever of the five mappings is present has the
\* values of the scenario: codon counts 1 for ATG, TCA, TCC, GAA and 0 for
\* the other 60 codons; amino-acid counts M = 1, S = 2, E = 1 and 0 for the
\* other 17; codon frequency 1/4 for each observed codon; amino-acid
\* frequencies M = 1/4, S = 2/4, E = 1/4; RSCU 1 for ATG, 3 for TCA and
\* TCC, 2 for GAA and 0 for every other codon.
C11_Scenario ==
  gs.exists /\ Len(gs.genes) = 1 /\ gs.genes[1].seq = ScenarioRecord.seq =>
    /\ last.exc = "None"
    /\ hasattr(gs.codon_dict) =>
         /\ Cardinality(DOMAIN Val(gs.codon_dict) \ ScenarioCodons) = 60
         /\ \A c \in DOMAIN Val(gs.codon_dict) :
              Val(gs.codon_dict)[c] = IF c \in ScenarioCodons THEN 1 ELSE 0
    /\ hasattr(gs.aa_dict) =>
         /\ Cardinality(DOMAIN Val(gs.aa_dict) \ {"M", "S", "E"}) = 17
         /\ \A a \in DOMAIN Val(gs.aa_dict) :
              Val(gs.aa_dict)[a] = CASE a = "M" -> 1 [] a = "S" -> 2
                                     [] a = "E" -> 1 [] OTHER -> 0
    /\ hasattr(gs.codon_frq) =>
         /\ DOMAIN Val(gs.codon_frq) = DOMAIN CODON_TABLE
         /\ \A c \in DOMAIN Val(gs.codon_frq) :
              IsRatio(Val(gs.codon_frq)[c], IF c \in ScenarioCodons THEN 1 ELSE 0, 4)
    /\ hasattr(gs.aa_frq) =>
         /\ DOMAIN Val(gs.aa_frq) = AA_LIST
         /\ \A a \in DOMAIN Val(gs.aa_frq) :
              IsRatio(Val(gs.aa_frq)[a],
                      CASE a = "M" -> 1 [] a = "S" -> 2 [] a = "E" -> 1 [] OTHER -> 0,
                      4)
    /\ hasattr(gs.RSCU_dict) =>
         /\ DOMAIN Val(gs.RSCU_dict) = DOMAIN CODON_TABLE
         /\ \A c \in DOMAIN Val(gs.RSCU_dict) :
              IsRatio(Val(gs.RSCU_dict)[c],
                      CASE c = "ATG" -> 1 [] c \in {"TCA", "TCC"} -> 3
                        [] c = "GAA" -> 2 [] OTHER -> 0,
                      1)

\* all five mappings of the scenario GeneSet are present
C11_Witness ==
  /\ gs.exists /\ Len(gs.genes) = 1 /\ gs.genes[1].seq = ScenarioRecord.seq
  /\ hasattr(gs.codon_dict) /\ hasattr(gs.aa_dict) /\ hasattr(gs.codon_frq)
  /\ hasattr(gs.aa_frq) /\ hasattr(gs.RSCU_dict)
  /\ last.op = "RSCU"

(***************************************************************************)
(* Memoisation.                                                            *)
(***************************************************************************)
\* the derived mappings of a GeneSet
DerivedFields(o) ==
  <<o.codon_dict, o.codon_frq, o.aa_dict, o.aa_frq, o.RSCU_dict,
    o.tRNA_dict_aa, o.tRNA_dict_tcc, o.tRNA_frq_aa, o.tRNA_frq_tcc>>

\* C12: every derived quantity of a Gene or GeneSet is computed at most once
\* per instance: once a derived mapping is present, no later call computes
\* it again, so its value stays what the first computation made it.
C12_ComputedAtMostOnce ==
  [][/\ gene.exists /\ hasattr(gene.codon_dict) =>
          gene'.codon_dict = gene.codon_dict
     /\ gs.exists =>
          \A i \in 1..Len(DerivedFields(gs)) :
            hasattr(DerivedFields(gs)[i]) =>
              DerivedFields(gs')[i] = DerivedFields(gs)[i]]_vars

(***************************************************************************)
(* tRNA gene tallies (specification SpecFrq).                              *)
(***************************************************************************)
WatsonCrick == {<<"A", "T">>, <<"T", "A">>, <<"C", "G">>, <<"G", "C">>}

\* codon c pairs with the anticodon base by base, read in opposite directions
Recognizes(anticodon, c) ==
  /\ Len(anticodon) = 3
  /\ \E x, y, z \in {"A", "C", "G", "T"} :
       /\ <<anticodon[3], x>> \in WatsonCrick
       /\ <<anticodon[2], y>> \in WatsonCrick
       /\ <<anticodon[1], z>> \in WatsonCrick
       /\ c = x \o y \o z

\* the retained genes whose product matches tRNA-XXX(YYY)
tRNAGenes == {k \in 1..Len(gs.genes) : gs.genes[k].gene_product.tRNA}

\* C13: when tRNA_counts returns, the per-amino-acid tally of a is the number
\* of matching genes whose abbreviation converts to a, the per-codon tally of
\* c is the number of matching genes whose anticodon has c as its reverse
\* complement, and genes that do not match count nowhere; when no gene
\* matches, the call returns with all tallies zero and total_tRNA = 0.
C13_tRNATallies ==
  LastIs("tRNA_counts") =>
    /\ last.exc = "None" =>
         /\ \A a \in DOMAIN Val(gs.tRNA_dict_aa) :
              Val(gs.tRNA_dict_aa)[a] =
                Cardinality({k \in tRNAGenes :
                               /\ gs.genes[k].gene_product.aa3 \in DOMAIN AA_CONVERSIONS
                               /\ AA_CONVERSIONS[gs.genes[k].gene_product.aa3] = a})
         /\ \A c \in DOMAIN Val(gs.tRNA_dict_tcc) :
              Val(gs.tRNA_dict_tcc)[c] =
                Cardinality({k \in tRNAGenes :
                               Recognizes(gs.genes[k].gene_product.anticodon, c)})
         /\ Sum(Val(gs.tRNA_dict_aa)) = Cardinality(tRNAGenes)
    /\ tRNAGenes = {} =>
         /\ last.exc = "None"
         /\ \A a \in DOMAIN Val(gs.tRNA_dict_aa) : Val(gs.tRNA_dict_aa)[a] = 0
         /\ \A c \in DOMAIN Val(gs.tRNA_dict_tcc) : Val(gs.tRNA_dict_tcc)[c] = 0
         /\ gs.total_tRNA = Attr(0)

\* a tRNA-Met(CAT) gene next to a gene that is no tRNA gene
C13_Witness ==
  /\ LastIs("tRNA_counts") /\ last.exc = "None"
  /\ Cardinality(tRNAGenes) = 1 /\ Len(gs.genes) = 2
  /\ Val(gs.tRNA_dict_aa)["M"] = 1
  /\ Val(gs.tRNA_dict_tcc)["ATG"] = 1
  /\ gs.total_tRNA = Attr(1)

\* every value of the mapping frq is zero
AllZero(frq) == \A k \in DOMAIN frq : frq[k].num = 0 /\ frq[k].den # 0

\* C14: a call of tRNA_frequency on a GeneSet without tRNA counts first runs
\* tRNA_counts (the tallies and total_tRNA are present afterwards, the total
\* being the number of tRNA genes), and a call that finds total_tRNA = 0
\* raises nothing and leaves tRNA_frq_aa all zero over the 20 amino acids
\* and tRNA_frq_tcc all zero over the 61 non-stop codons.
C14_tRNAFrequencyZeroTotal ==
  [][gs.exists /\ last'.op = "tRNA_frequency" =>
       /\ ~hasattr(gs.total_tRNA) /\ last'.exc = "None" =>
            /\ hasattr(gs'.tRNA_dict_aa) /\ hasattr(gs'.tRNA_dict_tcc)
            /\ gs'.total_tRNA = Attr(Cardinality(tRNAGenes))
            /\ Sum(Val(gs'.tRNA_dict_tcc)) = Cardinality(tRNAGenes)
       /\ tRNAGenes = {} =>
            /\ last'.exc = "None"
            /\ gs'.total_tRNA = Attr(0)
            /\ DOMAIN Val(gs'.tRNA_frq_aa) = AA_LIST
            /\ Cardinality(DOMAIN Val(gs'.tRNA_frq_aa)) = 20
            /\ DOMAIN Val(gs'.tRNA_frq_tcc) = CODON_LIST \ {"TAA", "TAG", "TGA"}
            /\ Cardinality(DOMAIN Val(gs'.tRNA_frq_tcc)) = 61
            /\ AllZero(Val(gs'.tRNA_frq_aa))
            /\ AllZero(Val(gs'.tRNA_frq_tcc))]_vars

\* tRNA_frequency was called first on a GeneSet of genes that are no tRNA genes
C14_Witness ==
  /\ LastIs("tRNA_frequency") /\ last.exc = "None"
  /\ Len(gs.genes) > 0 /\ tRNAGenes = {}
  /\ gs.total_tRNA = Attr(0)
  /\ AllZero(Val(gs.tRNA_frq_aa)) /\ AllZero(Val(gs.tRNA_frq_tcc))

(***************************************************************************)
(* GeneSet construction.                                                   *)
(***************************************************************************)
\* the records of the file the GeneSet was built from
Readout == last.args[1]

\* the positions of the records whose length is / is not a multiple of 3
Divisible == {k \in 1..Len(Readout) : Len(Readout[k].seq) % 3 = 0}
NotDivisible == (1..Len(Readout)) \ Divisible

\* seq lists, in file order, the records at the positions of P
InFileOrder(ids, P) ==
  /\ Len(ids) = Cardinality(P)
  /\ \A i \in 1..Len(ids) : \E k \in P :
       /\ ids[i] = Readout[k].id
       /\ Cardinality({j \in P : j < k}) = i - 1

\* C16: construction from a file of at least one record does not fail: every
\* record either becomes a Gene appended to genes or has its id appended to
\* skipped_genes, both in file order, so len(genes) + len(skipped_genes) is
\* the number of records, and skipped_genes holds exactly the ids of the
\* records whose sequence length is not divisible by the codon length 3.
C16_ConstructionRoutesFailures ==
  last.op = "GeneSet.__init__" /\ Len(Readout) > 0 =>
    /\ last.exc = "None" /\ gs.exists
    /\ Len(gs.genes) + Len(gs.skipped_genes) = Len(Readout)
    /\ InFileOrder(gs.skipped_genes, NotDivisible)
    /\ InFileOrder([i \in 1..Len(gs.genes) |-> gs.genes[i].gene_id], Divisible)
    /\ \A i \in 1..Len(gs.genes) : \E k \in Divisible :
         /\ gs.genes[i].gene_id = Readout[k].id
         /\ gs.genes[i].seq = Readout[k].seq
         /\ gs.genes[i].codon_length = 3

\* a record that is rejected, followed by one that is accepted
C16_Witness ==
  /\ last.op = "GeneSet.__init__" /\ gs.exists
  /\ Len(Readout) = 2
  /\ NotDivisible = {1}
  /\ gs.skipped_genes = <<Readout[1].id>>
  /\ Len(gs.genes) = 1 /\ gs.genes[1].gene_id = Readout[2].id

(***************************************************************************)
(* The genetic-code table.                                                 *)
(***************************************************************************)
Nucleotides == {"A", "C", "G", "T"}

\* C18: the table maps exactly the 64 codons over A, C, G, T, to exactly 20
\* amino-acid codes and the stop marker; the stop codons are exactly TAA,
\* TAG and TGA; the non-degenerate codons, the codons whose amino acid
\* occurs once among the values of the table, are exactly ATG and TGG.
C18_GeneticCode ==
  /\ DOMAIN CODON_TABLE = {x \o y \o z : x \in Nucleotides, y \in Nucleotides,
                                         z \in Nucleotides}
  /\ Cardinality(DOMAIN CODON_TABLE) = 64
  /\ Cardinality(CODON_LIST) = 64
  /\ Cardinality({CODON_TABLE[c] : c \in DOMAIN CODON_TABLE}) = 21
  /\ "_" \in {CODON_TABLE[c] : c \in DOMAIN CODON_TABLE}
  /\ Cardinality(AA_LIST) = 20 /\ "_" \notin AA_LIST
  /\ stop_codons = {"TAA", "TAG", "TGA"}
  /\ non_degenerate_codons = {"ATG", "TGG"}
  /\ gs.exists /\ hasattr(gs.aa_dict) => DOMAIN Val(gs.aa_dict) = AA_LIST

\* a GeneSet whose amino-acid counts were taken through the table: the stop
\* codon TAA was counted as a codon and dropped from the amino acids
C18_Witness ==
  /\ LastIs("amino_acid_counts") /\ last.exc = "None"
  /\ Val(gs.codon_dict)["TAA"] = 1
  /\ Val(gs.codon_dict)["ATG"] = 1
  /\ Val(gs.aa_dict)["M"] = 1
  /\ Sum(Val(gs.aa_dict)) = Sum(Val(gs.codon_dict)) - 1

(***************************************************************************)
(* Lazy prerequisites of the codon pipeline (specification Spec).          *)
(***************************************************************************)
DerivedOps == {"codon_frequency", "amino_acid_counts", "amino_acid_frequency", "RSCU"}

\* what codon_counts leaves with threshold_imprecise = ti: the aggregate over
\* the included genes and the ids of the other genes
IsAggregateFor(o, ti) ==
  /\ hasattr(o.codon_dict) /\ hasattr(o.skipped_imprecise_genes)
  /\ \A c \in DOMAIN CODON_TABLE :
       Val(o.codon_dict)[c] =
         SumOver([k \in 1..Len(gs.genes) |-> WindowCount(gs.genes[k], c)],
                 IncludedGenes(ti))
  /\ Len(Val(o.skipped_imprecise_genes)) = Cardinality(SkippedGenes(ti))
  /\ \A k \in SkippedGenes(ti) : \E j \in 1..Len(Val(o.skipped_imprecise_genes)) :
       Val(o.skipped_imprecise_genes)[j] = gs.genes[k].gene_id

\* C19: a call of codon_frequency, amino_acid_counts, amino_acid_frequency or
\* RSCU on a GeneSet without codon_dict runs codon_counts with the thresholds
\* of the call (it fails with TooManySkippedGenes exactly when the skipped
\* ratio for these thresholds is above threshold_skipped_genes, and
\* otherwise leaves the aggregate for these thresholds); a call that finds
\* codon_dict present leaves it and the per-gene results as they are;
\* amino_acid_frequency runs amino_acid_counts when aa_dict is absent and
\* leaves aa_dict as it is when present; after a call that returns,
\* codon_dict is present, and aa_dict too after amino_acid_frequency.
C19_LazyPrerequisites ==
  [][gs.exists /\ last'.op \in DerivedOps /\ AllGenesCounted =>
       LET ti == last'.args[1]
           ts == last'.args[2]
           ratio == Rat(Cardinality(SkippedGenes(ti)), Len(gs.genes))
       IN /\ ~hasattr(gs.codon_dict) =>
               /\ (last'.exc = "TooManySkippedGenes") <=> RatGT(ratio, ts)
               /\ IsAggregateFor(gs', ti)
          /\ hasattr(gs.codon_dict) =>
               /\ gs'.codon_dict = gs.codon_dict
               /\ gs'.skipped_imprecise_genes = gs.skipped_imprecise_genes
               /\ gs'.imprecise_codons = gs.imprecise_codons
               /\ gs'.genes = gs.genes
               /\ last'.exc # "TooManySkippedGenes"
          /\ last'.op = "amino_acid_frequency" /\ hasattr(gs.aa_dict) =>
               gs'.aa_dict = gs.aa_dict /\ gs'.codon_dict = gs.codon_dict
          /\ last'.exc = "None" =>
               /\ hasattr(gs'.codon_dict)
               /\ last'.op = "amino_acid_frequency" =>
                    /\ hasattr(gs'.aa_dict) /\ hasattr(gs'.aa_frq)
                    /\ ~hasattr(gs.aa_dict) =>
                         IsAminoAcidCountOf(Val(gs'.aa_dict), Val(gs'.codon_dict))]_vars

\* amino_acid_frequency was the first call on a GeneSet with a skipped gene:
\* the whole chain is populated, for the thresholds of the call
C19_Witness ==
  /\ LastIs("amino_acid_frequency") /\ last.exc = "None" /\ AllGenesCounted
  /\ ~hasattr(gs.codon_frq) /\ ~hasattr(gs.RSCU_dict)
  /\ hasattr(gs.codon_dict) /\ hasattr(gs.aa_dict) /\ hasattr(gs.aa_frq)
  /\ IsAggregateFor(gs, last.args[1])
  /\ SkippedGenes(last.args[1]) # {}
  /\ SkippedGenes(Rat(1, 1)) = {}

(***************************************************************************)
(* tRNAMetrics: construction and the aligned vectors                       *)
(***************************************************************************)
\* the five tRNA aggregates of GeneSet o are present, the two by amino acid
\* over the 20 amino acids and the two by codon over the 61 non-stop codons
HastRNAAggregates(o) ==
  /\ hasattr(o.tRNA_dict_aa) /\ DOMAIN Val(o.tRNA_dict_aa) = AA_LIST
  /\ hasattr(o.tRNA_dict_tcc)
  /\ DOMAIN Val(o.tRNA_dict_tcc) = CODON_LIST \ stop_codons
  /\ hasattr(o.total_tRNA)
  /\ hasattr(o.tRNA_frq_aa) /\ DOMAIN Val(o.tRNA_frq_aa) = AA_LIST
  /\ hasattr(o.tRNA_frq_tcc)
  /\ DOMAIN Val(o.tRNA_frq_tcc) = CODON_LIST \ stop_codons

\* C20: once a tRNAMetrics object is constructed from two GeneSets, whatever
\* tRNA operations were or were not called on them before, both GeneSets
\* have their tRNA tallies by amino acid and by codon, total_tRNA and both
\* tRNA frequency mappings, and no call of virus_TAAI or virus_TCAI fails
\* on a key of a tRNA aggregate.
C20_ConstructionPopulatestRNA ==
  tm.exists =>
    /\ HastRNAAggregates(gs)
    /\ HastRNAAggregates(host)
    /\ last.op \in {"virus_TAAI", "virus_TCAI"} => last.exc # "KeyError"

C20_Witness ==
  /\ tm.exists /\ last.op = "tRNAMetrics.__init__" /\ last.exc = "None"
  /\ gs.total_tRNA = Attr(0)
  /\ host.total_tRNA = Attr(1)
  /\ Val(host.tRNA_frq_aa)["S"].num = 1

\* C15: a call of virus_TAAI or virus_TCAI with include_virus_tRNA = True on
\* GeneSets that have no tRNA gene at all (pooled total 0), whose virus
\* frequency mapping was computed and sums to 1, raises nothing and sets the
\* pooled coefficient.
C15_EmptyPoolNeverCrashes ==
  [][/\ tm.exists
     /\ last'.op \in {"virus_TAAI", "virus_TCAI"}
     /\ last'.args[Len(last'.args)] = TRUE
     /\ gs.total_tRNA = Attr(0) /\ host.total_tRNA = Attr(0)
     /\ last'.op = "virus_TAAI" =>
          hasattr(gs'.aa_frq) /\ SumsToOne(Val(gs'.aa_frq))
     /\ last'.op = "virus_TCAI" =>
          hasattr(gs'.codon_frq) /\ SumsToOne(Val(gs'.codon_frq))
     => /\ last'.exc = "None"
        /\ last'.op = "virus_TAAI" => hasattr(tm'.virusTAAI_totaltRNA)
        /\ last'.op = "virus_TCAI" => hasattr(tm'.virusTCAI_totaltRNA)]_vars

\* the virus codon-frequency keys of GeneSet o that are no stop codon and,
\* with skip_nondeg_codons, no non-degenerate codon, in sorted order
AlignedKeys(o, skip_nondeg_codons) ==
  SelectSeq(SortedKeys,
            LAMBDA k : /\ k \in DOMAIN Val(o.codon_frq)
                       /\ k \notin {"TAA", "TAG", "TGA"}
                       /\ skip_nondeg_codons => k \notin {"ATG", "TGG"})

\* C17: a call of virus_TCAI that returns has aligned the virus codon
\* frequencies, the host tRNA frequencies and, when requested, the pooled
\* tRNA frequencies over the virus codon-frequency keys without the stop
\* codons (61 codons) or, with skip_nondeg_codons, without the stop and the
\* non-degenerate codons (59 codons), in sorted order.
C17_AlignedKeySequence ==
  [][tm.exists /\ last'.op = "virus_TCAI" /\ last'.exc = "None" =>
       \E K \in {AlignedKeys(gs', last'.args[1])} :
         /\ Len(K) = IF last'.args[1] THEN 59 ELSE 61
         /\ Val(tm'.virusTCAI_hosttRNA).a =
              [i \in 1..Len(K) |-> Val(gs'.codon_frq)[K[i]]]
         /\ Val(tm'.virusTCAI_hosttRNA).b =
              [i \in 1..Len(K) |-> Val(host'.tRNA_frq_tcc)[K[i]]]
         /\ last'.args[2] =>
              /\ Val(tm'.virusTCAI_totaltRNA).a = Val(tm'.virusTCAI_hosttRNA).a
              /\ Len(Val(tm'.virusTCAI_totaltRNA).b) = Len(K)]_vars

(***************************************************************************)
(* Failed computations                                                     *)
(***************************************************************************)
\* C21: when codon_counts has just failed with TooManySkippedGenes, a call
\* of codon_frequency, amino_acid_counts, amino_acid_frequency or RSCU with
\* the same thresholds fails too.
C21_RejectedAggregateStaysRejected ==
  [][/\ LastIs("codon_counts") /\ last.exc = "TooManySkippedGenes"
     /\ last'.op \in DerivedOps /\ last'.args = last.args
     => last'.exc # "None"]_vars

(***************************************************************************)
(* Derived mappings against the aggregate                                  *)
(***************************************************************************)
\* rscu is the RSCU of the codon counts cd
IsRSCUOf(rscu, cd) ==
  /\ DOMAIN rscu = DOMAIN cd
  /\ \A c \in DOMAIN rscu :
       IF cd[c] # 0
       THEN /\ rscu[c].den # 0
            /\ rscu[c].num * SumOver(cd, SynonymousFamily(c)) =
                 cd[c] * Cardinality(SynonymousFamily(c)) * rscu[c].den
       ELSE rscu[c].num = 0 /\ rscu[c].den # 0

\* C22: in every state of a GeneSet of genes that each have at least one
\* codon, with codon_dict present, whichever
\* derived mapping is present and filled agrees with it: aa_dict is codon_dict
\* summed per amino acid over the non-stop codons, codon_frq is codon_dict
\* normalised, aa_frq is that aa_dict normalised, RSCU_dict is the RSCU of
\* codon_dict.
C22_DerivedAgreeWithAggregate ==
  gs.exists /\ AllGenesCounted /\ hasattr(gs.codon_dict) =>
    /\ hasattr(gs.aa_dict) =>
         IsAminoAcidCountOf(Val(gs.aa_dict), Val(gs.codon_dict))
    /\ NonEmpty(gs.codon_frq) =>
         IsFrequencyOf(Val(gs.codon_frq), Val(gs.codon_dict))
    /\ NonEmpty(gs.aa_frq) /\ hasattr(gs.aa_dict) =>
         IsFrequencyOf(Val(gs.aa_frq), Val(gs.aa_dict))
    /\ hasattr(gs.RSCU_dict) =>
         IsRSCUOf(Val(gs.RSCU_dict), Val(gs.codon_dict))

\* C23: whatever was called before, a call of codon_frequency,
\* amino_acid_counts, amino_acid_frequency or RSCU with thresholds (ti, ts)
\* on a GeneSet of genes that each have at least one codon fails with
\* TooManySkippedGenes when the skipped ratio for ti is above ts, and when it
\* returns the aggregate is the one of codon_counts for ti and the mapping of
\* the call is derived from it.
C23_ResultIsForTheThresholdsOfTheCall ==
  [][gs.exists /\ last'.op \in DerivedOps /\ AllGenesCounted =>
       /\ RatGT(Rat(Cardinality(SkippedGenes(last'.args[1])), Len(gs.genes)),
                last'.args[2]) =>
            last'.exc = "TooManySkippedGenes"
       /\ last'.exc = "None" =>
            /\ IsAggregateFor(gs', last'.args[1])
            /\ last'.op = "codon_frequency" =>
                 IsFrequencyOf(Val(gs'.codon_frq), Val(gs'.codon_dict))
            /\ last'.op = "amino_acid_counts" =>
                 IsAminoAcidCountOf(Val(gs'.aa_dict), Val(gs'.codon_dict))
            /\ last'.op = "RSCU" =>
                 IsRSCUOf(Val(gs'.RSCU_dict), Val(gs'.codon_dict))]_vars

\* the cached fields of GeneSet o that are present
PresentFields(o) ==
  {f \in {"codon_dict", "aa_dict", "codon_frq", "aa_frq", "RSCU_dict"} :
     hasattr(o[f])}

\* C24: a call of codon_counts, codon_frequency, amino_acid_counts,
\* amino_acid_frequency or RSCU that fails with TooManySkippedGenes leaves no
\* codon_dict, aa_dict, codon_frq, aa_frq or RSCU_dict present that was
\* absent before the call.
C24_FailedCallWritesNoField ==
  [][/\ gs.exists
     /\ last'.op \in DerivedOps \cup {"codon_counts"}
     /\ last'.exc = "TooManySkippedGenes"
     => PresentFields(gs') \subseteq PresentFields(gs)]_vars

(***************************************************************************)
(* Arithmetic faults on empty inputs                                       *)
(***************************************************************************)
\* C25: on every constructed Gene, the empty sequence included,
\* calculate_codon_counts and calculate_aa_counts raise nothing and leave an
\* imprecise percentage between 0 and 1.
C25_GeneMethodsNeverFault ==
  gene.exists /\ last.op \in {"calculate_codon_counts", "calculate_aa_counts"} =>
    /\ last.exc = "None"
    /\ hasattr(gene.percent_imprecise_codons)
    /\ RatLE(Rat(0, 1), Val(gene.percent_imprecise_codons))
    /\ RatLE(Val(gene.percent_imprecise_codons), Rat(1, 1))

\* C26: a call of tRNA_counts raises nothing, whatever abbreviation and
\* anticodon the tRNA genes carry; afterwards the tallies by amino acid, the
\* tallies by recognized codon and total_tRNA each amount to the number of
\* tRNA genes, the former keyed by the 20 amino acids and the latter by the
\* 61 non-stop codons.
C26_EverytRNAGeneIsTallied ==
  LastIs("tRNA_counts") =>
    /\ last.exc = "None"
    /\ hasattr(gs.tRNA_dict_aa) /\ hasattr(gs.tRNA_dict_tcc)
    /\ DOMAIN Val(gs.tRNA_dict_aa) = AA_LIST
    /\ Cardinality(DOMAIN Val(gs.tRNA_dict_aa)) = 20
    /\ DOMAIN Val(gs.tRNA_dict_tcc) = CODON_LIST \ stop_codons
    /\ Cardinality(DOMAIN Val(gs.tRNA_dict_tcc)) = 61
    /\ Sum(Val(gs.tRNA_dict_aa)) = Cardinality(tRNAGenes)
    /\ Sum(Val(gs.tRNA_dict_tcc)) = Cardinality(tRNAGenes)
    /\ gs.total_tRNA = Attr(Cardinality(tRNAGenes))

(***************************************************************************)
(* RSCU over a synonymous family                                           *)
(***************************************************************************)
\* the synonymous families: the codons of one amino acid, the stop codons
Families == {SynonymousFamily(c) : c \in DOMAIN CODON_TABLE}

\* C27: after RSCU returns, for every synonymous family S with aggregate
\* count total T: when T is nonzero the RSCU values of the codons of S sum
\* to |S| (each value times T is a whole number and these sum to |S| * T),
\* when T is 0 they are all 0; no RSCU value is negative and none exceeds
\* |S|.
C27_RSCUSumsToFamilySize ==
  LastIs("RSCU") /\ last.exc = "None" =>
    \A S \in Families :
      \E T \in {SumOver(Val(gs.codon_dict), S)} :
        /\ \A c \in S :
             /\ Val(gs.RSCU_dict)[c].den > 0
             /\ Val(gs.RSCU_dict)[c].num >= 0
             /\ Val(gs.RSCU_dict)[c].num <=
                  Cardinality(S) * Val(gs.RSCU_dict)[c].den
        /\ T = 0 => \A c \in S : Val(gs.RSCU_dict)[c].num = 0
        /\ T # 0 =>
             /\ \A c \in S :
                  (Val(gs.RSCU_dict)[c].num * T) % Val(gs.RSCU_dict)[c].den = 0
             /\ SumOver([c \in S |-> (Val(gs.RSCU_dict)[c].num * T)
                                       \div Val(gs.RSCU_dict)[c].den], S)
                  = Cardinality(S) * T

\* a family with two of its six codons observed once each, a family with no
\* observed codon, and a gene left out of the aggregate
C27_Witness ==
  /\ LastIs("RSCU") /\ last.exc = "None"
  /\ Len(gs.genes) = 2
  /\ SumOver(Val(gs.codon_dict), SynonymousFamily("TCA")) = 2
  /\ Val(gs.codon_dict)["TCA"] = 1 /\ Val(gs.codon_dict)["TCC"] = 1
  /\ RatEq(Val(gs.RSCU_dict)["TCC"], Rat(3, 1))
  /\ SumOver(Val(gs.codon_dict), SynonymousFamily("TGG")) = 0
  /\ Val(gs.RSCU_dict)["TGG"].num = 0

\* C28: a call of codon_counts on a GeneSet whose retained gene list is
\* empty (every record went to skipped_genes at construction) either returns
\* with an all-zero aggregate or fails with TooManySkippedGenes.
C28_EmptyGeneListNeverFaults ==
  LastIs("codon_counts") /\ Len(gs.genes) = 0 /\ Len(gs.skipped_genes) > 0 =>
    \/ last.exc = "TooManySkippedGenes"
    \/ /\ last.exc = "None"
       /\ \A c \in DOMAIN Val(gs.codon_dict) : Val(gs.codon_dict)[c] = 0

====
